---- MODULE Spec2Model ----
(***************************************************************************)
(* The series cache of the metric exporter (package export): the entries   *)
(* map from series reference to cached conversion state, the intervals map *)
(* from series hash to the most recently written sample interval, the      *)
(* counter reset tracking of getResetAdjusted, and get/populate.            *)
(***************************************************************************)
EXTENDS Integers, Sequences, FiniteSets, TLC

\* ------------------------------------------------------------------ bounds
\* Candidate intervals of the sequential specification have their start and
\* end on the grid 0, 5, ..., 5 * MaxTick.
MaxTick == 6
\* Series references handed to get and getResetAdjusted are 1..MaxRef.
MaxRef == 2
\* The clock stops at MaxNow seconds.
MaxNow == 601
\* The ticker of the background loop fires at most MaxSweeps times.
MaxSweeps == 3

\* The two worker goroutines that call into the cache, and the one of them
\* that drives the sequential specifications.
Workers == {"w1", "w2"}
Solo == {"w1"}

Hashes == {1, 2}
Refs == 1..MaxRef

IntervalTimes == {5 * i : i \in 0..MaxTick}
\* The racing specification uses a coarser grid.
RaceTimes == {0, 10, 20}

VARIABLES
    entries,    \* seriesCache.entries: ref -> seriesCacheEntry (a Go map)
    intervals,  \* seriesCache.intervals: hash -> sampleInterval (a Go map)
    now,        \* time.Now().Unix(), in seconds
    getRet,     \* the value returned by the last get
    pc,         \* per worker: where it is in the call it is making
    call,       \* per worker: the arguments of the call it is making
    ret,        \* per worker: the last value returned to it
    local,      \* per worker: the local variables of getResetAdjusted
    pre,        \* history, per worker: the reset state its getResetAdjusted call found
    rsScen,     \* history: progress of the calls on ScenarioRef through ResetScenario
    race,       \* history: whether two identical updateSampleInterval calls are in flight
    ivScen,     \* history: progress of the calls on ScenarioHash through IntervalScenario
    loop,       \* the goroutine running seriesCache.run, its context and its ticker
    hist,       \* history: what the calls on ScenarioRef have done so far, while recording
    configMetrics, \* rule-evaluator: lastReloadSuccess and lastReloadSuccessTime
    frames,     \* rule-evaluator: per trigger, the reloadConfig call running for it
    handler,    \* rule-evaluator: the reload handler goroutine, its position and its rc
    hup,        \* rule-evaluator: signals buffered in the channel hup (capacity 1)
    http,       \* rule-evaluator: per request, the goroutine serving it on /-/reload
    interrupt,  \* rule-evaluator: the interrupt function of the reload handler actor
    opts,       \* operator: the Options, before and after defaultAndValidate
    cluster,    \* operator: the OperatorConfig and the objects made for the rule-evaluator
    reconcile   \* operator: the last call of operatorConfigReconciler.Reconcile

\* The state of the series cache but for the clock.
cacheState ==
    <<entries, intervals, getRet, pc, call, ret, local, pre, rsScen, race, ivScen, loop, hist>>

\* The state of the rule-evaluator's reload handling.
reloadVars == <<configMetrics, frames, handler, hup, http, interrupt>>

\* The state of the operator.
operatorVars == <<opts, cluster, reconcile>>

vars ==
    <<entries, intervals, now, getRet, pc, call, ret, local, pre, rsScen, race, ivScen, loop,
      hist, configMetrics, frames, handler, hup, http, interrupt, opts, cluster, reconcile>>

\* ------------------------------------------------------------ Go map helpers
EmptyMap == [x \in {} |-> 0]
Has(m, k) == k \in DOMAIN m
Put(m, k, v) == (k :> v) @@ m

\* --------------------------------------------------------- worker registers
NoCall == [op |-> "none", key |-> 0, a |-> 0, b |-> 0]
NoRet == [ts |-> 0, val |-> 0, ok |-> FALSE]
NoLocal == [hasReset |-> FALSE, ts |-> 0]
NoPre == [found |-> FALSE, hasReset |-> FALSE, resetValue |-> 0, resetTimestamp |-> 0]
Other(w) == CHOOSE o \in Workers : o # w

\* ------------------------------------------------------------------ history
\* The series reference whose calls the history variables follow.
ScenarioRef == 1

\* last is the latest getResetAdjusted call on ScenarioRef that returned after
\* finding an entry: its sample (t, v), its result (ts, val, ok) and whether a
\* refresh had repopulated the entry between the sample before it and its own
\* lookup. increasing: the timestamps of these calls have been strictly
\* increasing. refreshed: a get has run populate on the existing entry since
\* the last sample returned. looked: refreshed, as it was when the call under
\* way looked the entry up. succeeded, failed: a get on ScenarioRef has
\* returned without an error, with an error of populate.
NoSample ==
    [ none |-> TRUE, t |-> 0, v |-> 0, ts |-> 0, val |-> 0, ok |-> FALSE,
      afterRefresh |-> FALSE ]
NoHist ==
    [ on |-> FALSE, last |-> NoSample, increasing |-> TRUE, refreshed |-> FALSE,
      looked |-> FALSE, succeeded |-> FALSE, failed |-> FALSE ]
Recording == [NoHist EXCEPT !.on = TRUE]

\* hist after a get on ref that returned err; populated is whether it ran
\* populate.
histGet(ref, populated, err) ==
    IF ~hist.on \/ ref # ScenarioRef THEN hist
    ELSE [hist EXCEPT !.refreshed = @ \/ (populated /\ Has(entries, ref)),
                      !.succeeded = @ \/ err = "",
                      !.failed = @ \/ (populated /\ err # "")]

\* hist after the entry lookup of w's getResetAdjusted call.
histLookup(w) ==
    IF ~hist.on \/ call[w].key # ScenarioRef THEN hist
    ELSE [hist EXCEPT !.looked = hist.refreshed]

\* hist after w's getResetAdjusted call returned result.
histSample(w, result) ==
    IF ~hist.on \/ call[w].key # ScenarioRef THEN hist
    ELSE [hist EXCEPT !.last = [ none |-> FALSE, t |-> call[w].a, v |-> call[w].b,
                                 ts |-> result.ts, val |-> result.val, ok |-> result.ok,
                                 afterRefresh |-> hist.looked ],
                      !.increasing = @ /\ (hist.last.none \/ call[w].a > hist.last.t),
                      !.refreshed = FALSE,
                      !.looked = FALSE]

\* ------------------------------------------------------- sample intervals
sampleInterval(start, end) == [start |-> start, end |-> end]

\* accepts without the start > si.start conjunct.
acceptsTouching(si, start, end) ==
    (start = si.start /\ end > si.end) \/ (start >= si.end)

\* accepts with a later interval having to start after si.end.
acceptsStrict(si, start, end) ==
    (start = si.start /\ end > si.end) \/ (start > si.start /\ start > si.end)

\* accepts with a later start accepted wherever the recorded interval ends.
acceptsByStart(si, start, end) ==
    (start = si.start /\ end > si.end) \/ (start > si.start)

accepts(si, start, end) ==
    (start = si.start /\ end > si.end) \/ (start > si.start /\ start >= si.end)

\* The calls of the interval scenario, in order, on ScenarioHash.
ScenarioHash == 1
IntervalScenario ==
    << sampleInterval(0, 10), sampleInterval(0, 20),
       sampleInterval(5, 15), sampleInterval(20, 30) >>

ivScenNext(hash, start, end, ok) ==
    IF hash # ScenarioHash THEN ivScen
    ELSE IF /\ ivScen.on
            /\ Len(ivScen.res) < Len(IntervalScenario)
            /\ IntervalScenario[Len(ivScen.res) + 1] = sampleInterval(start, end)
         THEN [on |-> TRUE, res |-> Append(ivScen.res, ok)]
         ELSE [on |-> FALSE, res |-> <<>>]

\* A worker enters updateSampleInterval(hash, start, end) and waits for c.mtx.
CallUpdateSampleInterval(w, hash, start, end) ==
    /\ pc[w] = "idle"
    /\ pc' = [pc EXCEPT ![w] = "usi_lock"]
    /\ call' = [call EXCEPT ![w] =
                  [op |-> "updateSampleInterval", key |-> hash, a |-> start, b |-> end]]
    /\ race' = IF /\ pc[Other(w)] = "usi_lock"
                  /\ call[Other(w)].key = hash
                  /\ call[Other(w)].a = start
                  /\ call[Other(w)].b = end
               THEN IF ~Has(intervals, hash) \/ accepts(intervals[hash], start, end)
                    THEN "accept" ELSE "reject"
               ELSE "none"
    /\ UNCHANGED <<entries, intervals, now, getRet, ret, local, pre, rsScen, ivScen, loop, hist, reloadVars, operatorVars>>

\* updateSampleInterval storing the candidate before it is checked.
updateSampleIntervalStoreFirst(w) ==
    /\ pc[w] = "usi_lock"
    /\ LET hash == call[w].key
           start == call[w].a
           end == call[w].b
           ok == ~Has(intervals, hash) \/ accepts(intervals[hash], start, end)
       IN /\ intervals' = Put(intervals, hash, sampleInterval(start, end))
          /\ ret' = [ret EXCEPT ![w] = [ts |-> 0, val |-> 0, ok |-> ok]]
          /\ ivScen' = ivScenNext(hash, start, end, ok)
    /\ pc' = [pc EXCEPT ![w] = "done"]
    /\ UNCHANGED <<entries, now, getRet, call, local, pre, rsScen, race, loop, hist, reloadVars, operatorVars>>

\* The body of updateSampleInterval, run under c.mtx.
updateSampleInterval(w) ==
    /\ pc[w] = "usi_lock"
    /\ LET hash == call[w].key
           start == call[w].a
           end == call[w].b
           ok == ~Has(intervals, hash) \/ accepts(intervals[hash], start, end)
       IN /\ intervals' = IF ok THEN Put(intervals, hash, sampleInterval(start, end))
                          ELSE intervals
          /\ ret' = [ret EXCEPT ![w] = [ts |-> 0, val |-> 0, ok |-> ok]]
          /\ ivScen' = ivScenNext(hash, start, end, ok)
    /\ pc' = [pc EXCEPT ![w] = "done"]
    /\ UNCHANGED <<entries, now, getRet, call, local, pre, rsScen, race, loop, hist, reloadVars, operatorVars>>

\* The caller takes the returned value and is free to make its next call.
Return(w) ==
    /\ pc[w] = "done"
    /\ pc' = [pc EXCEPT ![w] = "idle"]
    /\ call' = [call EXCEPT ![w] = NoCall]
    /\ ret' = [ret EXCEPT ![w] = NoRet]
    /\ local' = [local EXCEPT ![w] = NoLocal]
    /\ pre' = [pre EXCEPT ![w] = NoPre]
    /\ race' = "none"
    /\ UNCHANGED <<entries, intervals, now, getRet, rsScen, ivScen, loop, hist, reloadVars, operatorVars>>

\* ------------------------------------------------------------------ labels
\* A label set (labels.Labels) is a function from label names to values.
EmptyLabels == [x \in {} |-> ""]
keyLocation == "location"
keyCluster == "cluster"
keyNamespace == "namespace"
keyJob == "job"
keyInstance == "instance"
ResourceKeys == {keyLocation, keyCluster, keyNamespace, keyJob, keyInstance}

LabelsHas(lset, name) == name \in DOMAIN lset
LabelsGet(lset, name) == IF name \in DOMAIN lset THEN lset[name] ELSE ""
LabelsDel(lset, names) == [n \in DOMAIN lset \ names |-> lset[n]]

\* Every label name of the model, in the byte order labels.FromMap sorts by.
LabelOrder ==
    << "__name__", "cluster", "instance", "job", "le", "location",
       "namespace", "quantile", "x", "y", "z" >>

\* labels.FromMap: the labels of a map as a slice sorted by name.
FromMap(m) ==
    LET present == SelectSeq(LabelOrder, LAMBDA n : n \in DOMAIN m)
    IN [i \in 1..Len(present) |-> [Name |-> present[i], Value |-> m[present[i]]]]

\* ------------------------------------------------------------ metric names
metricSuffixNone == ""
metricSuffixTotal == "_total"
metricSuffixBucket == "_bucket"
metricSuffixSum == "_sum"
metricSuffixCount == "_count"

HasSuffix(s, suffix) ==
    /\ Len(s) >= Len(suffix)
    /\ SubSeq(s, Len(s) - Len(suffix) + 1, Len(s)) = suffix
TrimSuffix(s, suffix) == SubSeq(s, 1, Len(s) - Len(suffix))

\* Splits a well-known suffix off a metric name: [prefix, suffix, ok].
splitComplexMetricSuffix(name) ==
    IF HasSuffix(name, metricSuffixBucket)
    THEN [prefix |-> TrimSuffix(name, metricSuffixBucket), suffix |-> metricSuffixBucket, ok |-> TRUE]
    ELSE IF HasSuffix(name, metricSuffixCount)
    THEN [prefix |-> TrimSuffix(name, metricSuffixCount), suffix |-> metricSuffixCount, ok |-> TRUE]
    ELSE IF HasSuffix(name, metricSuffixSum)
    THEN [prefix |-> TrimSuffix(name, metricSuffixSum), suffix |-> metricSuffixSum, ok |-> TRUE]
    ELSE IF HasSuffix(name, metricSuffixTotal)
    THEN [prefix |-> TrimSuffix(name, metricSuffixTotal), suffix |-> metricSuffixTotal, ok |-> TRUE]
    ELSE [prefix |-> name, suffix |-> metricSuffixNone, ok |-> FALSE]

metricsPrefix == "prometheus.googleapis.com"
getMetricType(name) == metricsPrefix \o "/" \o name

\* ---------------------------------------------------------------- metadata
NoMetadata == [Metric |-> "", Type |-> "", Help |-> ""]
Metadata(metric, type) == [Metric |-> metric, Type |-> type, Help |-> ""]

InternalMetricNames ==
    { "up", "scrape_samples_scraped", "scrape_duration_seconds",
      "scrape_samples_post_metric_relabeling", "scrape_series_added" }
internalMetrics ==
    [m \in InternalMetricNames |-> [Metric |-> m, Type |-> "gauge", Help |-> "internal"]]

\* A scrape target is the metadata it holds: a map from metric name to metadata.
getMetadata(target, metric) ==
    IF Has(target, metric) THEN [md |-> target[metric], ok |-> TRUE]
    ELSE IF Has(internalMetrics, metric) THEN [md |-> internalMetrics[metric], ok |-> TRUE]
    ELSE [md |-> NoMetadata, ok |-> FALSE]

\* ------------------------------------------------------------------ hashing
HashModulus == 65536
HashOffset == 7
HashPrime == 403
HashSep == 255
Alphabet == "abcdefghijklmnopqrstuvwxyz_/.:0123456789"
\* The byte a character stands for: its place in Alphabet.
CharCodes ==
    [c \in {SubSeq(Alphabet, i, i) : i \in 1..Len(Alphabet)} |->
        CHOOSE i \in 1..Len(Alphabet) : SubSeq(Alphabet, i, i) = c]
CharCode(c) == CharCodes[c]

hashNew == HashOffset
hashAddByte(h, b) == ((h + b) * HashPrime) % HashModulus

\* hashAdd folds the bytes of s into h, first byte first.
hashAddFold[h \in Nat, s \in STRING, i \in Nat] ==
    IF i > Len(s) THEN h
    ELSE hashAddFold[hashAddByte(h, CharCode(SubSeq(s, i, i))), s, i + 1]
hashAdd(h, s) == hashAddFold[h, s, 1]

\* The loop of hashSeries over a sorted label slice.
LabelSlices == Seq([Name : STRING, Value : STRING])
hashLabelsFold[h \in Nat, ls \in LabelSlices] ==
    IF Len(ls) = 0 THEN h
    ELSE hashLabelsFold[
             hashAdd(hashAddByte(hashAdd(hashAddByte(h, HashSep), ls[1].Name), HashSep),
                     ls[1].Value),
             Tail(ls)]
hashLabels(h, ls) == hashLabelsFold[h, ls]

\* hashSeries with the time of the call folded in.
hashSeriesSalted(s) ==
    LET h1 == hashAdd(hashNew, s.Resource.Type)
        h2 == hashAddByte(h1, HashSep)
        h3 == hashAdd(h2, s.Metric.Type)
        h4 == hashLabels(h3, FromMap(s.Resource.Labels))
        h5 == hashAddByte(h4, HashSep)
    IN hashAddByte(hashLabels(h5, FromMap(s.Metric.Labels)), now % 256)

hashSeries(s) ==
    LET h1 == hashAdd(hashNew, s.Resource.Type)
        h2 == hashAddByte(h1, HashSep)
        h3 == hashAdd(h2, s.Metric.Type)
        h4 == hashLabels(h3, FromMap(s.Resource.Labels))
        h5 == hashAddByte(h4, HashSep)
    IN hashLabels(h5, FromMap(s.Metric.Labels))

\* ------------------------------------------------------------ cache entries
refreshInterval == 600
refreshJitter == 600
maxLabelCount == 2

NilProto ==
    [ nil |-> TRUE,
      Resource |-> [Type |-> "", Labels |-> EmptyLabels],
      Metric |-> [Type |-> "", Labels |-> EmptyLabels],
      MetricKind |-> "", ValueType |-> "" ]

\* &seriesCacheEntry{lset: lset}: every other field has its zero value.
newEntry(lset) ==
    [ lset |-> lset, metadata |-> NoMetadata, proto |-> NilProto,
      suffix |-> metricSuffixNone, hash |-> 0, nextRefresh |-> 0,
      hasReset |-> FALSE, resetValue |-> 0, resetTimestamp |-> 0 ]

valid(e) == ~e.proto.nil
\* shouldRefresh with every entry due at every get.
shouldRefreshAlways(e) == TRUE
\* shouldRefresh with no entry ever due.
shouldRefreshNever(e) == FALSE
shouldRefresh(e) == now > e.nextRefresh
\* setNextRefresh adding the jitter only, without refreshInterval.
setNextRefreshJitterOnly(e, delay) == [e EXCEPT !.nextRefresh = now + delay - refreshInterval]
\* delay is what refreshInterval plus the drawn jitter comes to, in seconds.
setNextRefresh(e, delay) == [e EXCEPT !.nextRefresh = now + delay]
RefreshDelays ==
    { refreshInterval - refreshJitter \div 2, refreshInterval,
      refreshInterval + refreshJitter \div 2 }

\* extractResource looking for job and instance after the external labels
\* are merged in.
extractResourceMergeFirst(lset, externalLabels) ==
    LET added == { n \in DOMAIN externalLabels :
                     ~LabelsHas(lset, n) /\ externalLabels[n] # "" }
        merged == [n \in DOMAIN lset \cup added |->
                     IF n \in DOMAIN lset THEN lset[n] ELSE externalLabels[n]]
        mres == [ Type |-> "prometheus_target",
                  Labels |-> [k \in ResourceKeys |-> LabelsGet(merged, k)] ]
    IN IF ~LabelsHas(merged, keyJob) \/ ~LabelsHas(merged, keyInstance)
       THEN [resource |-> [Type |-> "", Labels |-> EmptyLabels], labels |-> EmptyLabels, ok |-> FALSE]
       ELSE [resource |-> mres, labels |-> LabelsDel(merged, ResourceKeys), ok |-> TRUE]

\* extractResource with the external label's value taken on a collision.
extractResourceExternalWins(lset, externalLabels) ==
    IF ~LabelsHas(lset, keyJob) \/ ~LabelsHas(lset, keyInstance)
    THEN [resource |-> [Type |-> "", Labels |-> EmptyLabels], labels |-> EmptyLabels, ok |-> FALSE]
    ELSE LET added == { n \in DOMAIN externalLabels : externalLabels[n] # "" }
             merged == [n \in DOMAIN lset \cup added |->
                          IF n \in added THEN externalLabels[n] ELSE lset[n]]
             mres == [ Type |-> "prometheus_target",
                       Labels |-> [k \in ResourceKeys |-> LabelsGet(merged, k)] ]
         IN [resource |-> mres, labels |-> LabelsDel(merged, ResourceKeys), ok |-> TRUE]

\* extractResource leaving the job label among the returned labels.
extractResourceKeepingJob(lset, externalLabels) ==
    IF ~LabelsHas(lset, keyJob) \/ ~LabelsHas(lset, keyInstance)
    THEN [resource |-> [Type |-> "", Labels |-> EmptyLabels], labels |-> EmptyLabels, ok |-> FALSE]
    ELSE LET added == { n \in DOMAIN externalLabels :
                          ~LabelsHas(lset, n) /\ externalLabels[n] # "" }
             merged == [n \in DOMAIN lset \cup added |->
                          IF n \in DOMAIN lset THEN lset[n] ELSE externalLabels[n]]
             mres == [ Type |-> "prometheus_target",
                       Labels |-> [k \in ResourceKeys |-> LabelsGet(merged, k)] ]
         IN [ resource |-> mres, labels |-> LabelsDel(merged, ResourceKeys \ {keyJob}),
              ok |-> TRUE ]

\* [resource, labels, ok]: the monitored resource and the remaining labels.
extractResource(lset, externalLabels) ==
    IF ~LabelsHas(lset, keyJob) \/ ~LabelsHas(lset, keyInstance)
    THEN [resource |-> [Type |-> "", Labels |-> EmptyLabels], labels |-> EmptyLabels, ok |-> FALSE]
    ELSE LET added == { n \in DOMAIN externalLabels :
                          ~LabelsHas(lset, n) /\ externalLabels[n] # "" }
             merged == [n \in DOMAIN lset \cup added |->
                          IF n \in DOMAIN lset THEN lset[n] ELSE externalLabels[n]]
             mres == [ Type |-> "prometheus_target",
                       Labels |-> [k \in ResourceKeys |-> LabelsGet(merged, k)] ]
         IN [resource |-> mres, labels |-> LabelsDel(merged, ResourceKeys), ok |-> TRUE]

\* convertType with every unlisted type or suffix converted as a gauge.
convertTypeLenient(type, suffix) ==
    CASE type = "counter" -> [kind |-> "CUMULATIVE", value |-> "DOUBLE", err |-> ""]
      [] type = "summary" /\ suffix = metricSuffixSum ->
            [kind |-> "CUMULATIVE", value |-> "DOUBLE", err |-> ""]
      [] type = "summary" /\ suffix = metricSuffixCount ->
            [kind |-> "CUMULATIVE", value |-> "INT64", err |-> ""]
      [] type = "histogram" -> [kind |-> "CUMULATIVE", value |-> "DISTRIBUTION", err |-> ""]
      [] OTHER -> [kind |-> "GAUGE", value |-> "DOUBLE", err |-> ""]

\* convertType with a summary's count converted as a double.
convertTypeCountAsDouble(type, suffix) ==
    CASE type = "counter" -> [kind |-> "CUMULATIVE", value |-> "DOUBLE", err |-> ""]
      [] type \in {"gauge", "unknown"} -> [kind |-> "GAUGE", value |-> "DOUBLE", err |-> ""]
      [] type = "summary" ->
            ( CASE suffix \in {metricSuffixSum, metricSuffixCount} ->
                        [kind |-> "CUMULATIVE", value |-> "DOUBLE", err |-> ""]
                [] suffix = metricSuffixNone -> [kind |-> "GAUGE", value |-> "DOUBLE", err |-> ""]
                [] OTHER -> [kind |-> "", value |-> "", err |-> "unexpected metric name suffix"] )
      [] type = "histogram" -> [kind |-> "CUMULATIVE", value |-> "DISTRIBUTION", err |-> ""]
      [] OTHER -> [kind |-> "", value |-> "", err |-> "unexpected metric type"]

\* The kind and value type the conversion switch picks, or its error.
convertType(type, suffix) ==
    CASE type = "counter" -> [kind |-> "CUMULATIVE", value |-> "DOUBLE", err |-> ""]
      [] type \in {"gauge", "unknown"} -> [kind |-> "GAUGE", value |-> "DOUBLE", err |-> ""]
      [] type = "summary" ->
            ( CASE suffix = metricSuffixSum -> [kind |-> "CUMULATIVE", value |-> "DOUBLE", err |-> ""]
                [] suffix = metricSuffixCount -> [kind |-> "CUMULATIVE", value |-> "INT64", err |-> ""]
                [] suffix = metricSuffixNone -> [kind |-> "GAUGE", value |-> "DOUBLE", err |-> ""]
                [] OTHER -> [kind |-> "", value |-> "", err |-> "unexpected metric name suffix"] )
      [] type = "histogram" -> [kind |-> "CUMULATIVE", value |-> "DISTRIBUTION", err |-> ""]
      [] OTHER -> [kind |-> "", value |-> "", err |-> "unexpected metric type"]

\* labelCountExceeded with no limit on the number of labels.
labelCountUnlimited(metricLabels) == FALSE

\* len(metricLabels) > maxLabelCount
labelCountExceeded(metricLabels) == Cardinality(DOMAIN metricLabels) > maxLabelCount

\* [entry, err, step]: the entry as populate leaves it, the error it returns
\* ("" for nil) and the place it returned from.
populate(entry, target, externalLabels) ==
    LET res == extractResource(entry.lset, externalLabels)
        noName == LabelsDel(res.labels, {"__name__"})
        metricName == LabelsGet(entry.lset, "__name__")
        full == getMetadata(target, metricName)
        split == splitComplexMetricSuffix(metricName)
        base == IF ~full.ok /\ split.ok THEN getMetadata(target, split.prefix)
                ELSE [md |-> NoMetadata, ok |-> FALSE]
        found == full.ok \/ base.ok
        metadata == IF full.ok THEN full.md ELSE base.md
        baseMetricName == IF full.ok THEN "" ELSE split.prefix
        suffix == IF full.ok THEN metricSuffixNone ELSE split.suffix
        metricLabels == IF metadata.Type = "histogram" THEN LabelsDel(noName, {"le"})
                        ELSE noName
        conv == convertType(metadata.Type, suffix)
        ts == [ nil |-> FALSE,
                Resource |-> res.resource,
                Metric |-> [ Type |-> IF metadata.Type = "histogram"
                                      THEN getMetricType(baseMetricName)
                                      ELSE getMetricType(metricName),
                             Labels |-> metricLabels ],
                MetricKind |-> conv.kind, ValueType |-> conv.value ]
    IN IF ~res.ok THEN [entry |-> entry, err |-> "", step |-> "unknown resource"]
       ELSE IF labelCountExceeded(noName)
       THEN [entry |-> entry, err |-> "", step |-> "too many labels"]
       ELSE IF ~found
       THEN [entry |-> entry, err |-> "", step |-> "metadata not found"]
       ELSE IF conv.err # ""
       THEN [entry |-> entry, err |-> conv.err, step |-> "switch"]
       ELSE [ entry |-> [entry EXCEPT !.proto = ts, !.metadata = metadata,
                                      !.suffix = suffix, !.hash = hashSeries(ts)],
              err |-> "", step |-> "converted" ]

\* What getLabelsByRef returns: nil, or a label set.
NilLabels == [nil |-> TRUE, lset |-> EmptyLabels]
SomeLabels(lset) == [nil |-> FALSE, lset |-> lset]

NilEntry == 0
NoGetRet == [entry |-> NilEntry, valid |-> FALSE, err |-> ""]

\* get storing the new entry before the label set is checked.
getStoreFirst(ref, target, labelsByRef, externalLabels, delay) ==
    IF ~Has(entries, ref) /\ labelsByRef.nil
    THEN /\ getRet' = [ entry |-> NilEntry, valid |-> FALSE,
                        err |-> "series reference invalid" ]
         /\ hist' = histGet(ref, FALSE, "series reference invalid")
         /\ entries' = Put(entries, ref, newEntry(labelsByRef.lset))
         /\ UNCHANGED <<intervals, now, pc, call, ret, local, pre, rsScen, race, ivScen, loop, reloadVars, operatorVars>>
    ELSE \E e \in {IF Has(entries, ref) THEN entries[ref] ELSE newEntry(labelsByRef.lset)} :
            /\ IF ~shouldRefresh(e)
               THEN /\ entries' = Put(entries, ref, e)
                    /\ getRet' = [entry |-> ref, valid |-> valid(e), err |-> ""]
                    /\ hist' = histGet(ref, FALSE, "")
               ELSE \E p \in {populate(e, target, externalLabels)} :
                       IF p.err # ""
                       THEN /\ entries' = Put(entries, ref, e)
                            /\ getRet' = [entry |-> NilEntry, valid |-> FALSE, err |-> p.err]
                            /\ hist' = histGet(ref, TRUE, p.err)
                       ELSE /\ entries' = Put(entries, ref, setNextRefresh(p.entry, delay))
                            /\ getRet' = [entry |-> ref, valid |-> valid(p.entry), err |-> ""]
                            /\ hist' = histGet(ref, TRUE, "")
            /\ UNCHANGED <<intervals, now, pc, call, ret, local, pre, rsScen, race, ivScen, loop, reloadVars, operatorVars>>

\* get setting a new deadline after populate returned an error.
getAdvanceOnError(ref, target, labelsByRef, externalLabels, delay) ==
    IF ~Has(entries, ref) /\ labelsByRef.nil
    THEN /\ getRet' = [ entry |-> NilEntry, valid |-> FALSE,
                        err |-> "series reference invalid" ]
         /\ hist' = histGet(ref, FALSE, "series reference invalid")
         /\ UNCHANGED <<entries, intervals, now, pc, call, ret, local, pre, rsScen, race,
                        ivScen, loop, reloadVars, operatorVars>>
    ELSE \E e \in {IF Has(entries, ref) THEN entries[ref] ELSE newEntry(labelsByRef.lset)} :
            /\ IF ~shouldRefresh(e)
               THEN /\ entries' = Put(entries, ref, e)
                    /\ getRet' = [entry |-> ref, valid |-> valid(e), err |-> ""]
                    /\ hist' = histGet(ref, FALSE, "")
               ELSE \E p \in {populate(e, target, externalLabels)} :
                       IF p.err # ""
                       THEN /\ entries' = Put(entries, ref, setNextRefresh(e, delay))
                            /\ getRet' = [entry |-> NilEntry, valid |-> FALSE, err |-> p.err]
                            /\ hist' = histGet(ref, TRUE, p.err)
                       ELSE /\ entries' = Put(entries, ref, setNextRefresh(p.entry, delay))
                            /\ getRet' = [entry |-> ref, valid |-> valid(p.entry), err |-> ""]
                            /\ hist' = histGet(ref, TRUE, "")
            /\ UNCHANGED <<intervals, now, pc, call, ret, local, pre, rsScen, race, ivScen, loop, reloadVars, operatorVars>>

\* get asking getLabelsByRef for the label set again at every refresh.
getRelabelling(ref, target, labelsByRef, externalLabels, delay) ==
    IF ~Has(entries, ref) /\ labelsByRef.nil
    THEN /\ getRet' = [ entry |-> NilEntry, valid |-> FALSE,
                        err |-> "series reference invalid" ]
         /\ hist' = histGet(ref, FALSE, "series reference invalid")
         /\ UNCHANGED <<entries, intervals, now, pc, call, ret, local, pre, rsScen, race,
                        ivScen, loop, reloadVars, operatorVars>>
    ELSE \E e \in {IF Has(entries, ref) THEN entries[ref] ELSE newEntry(labelsByRef.lset)} :
            /\ IF ~shouldRefresh(e)
               THEN /\ entries' = Put(entries, ref, e)
                    /\ getRet' = [entry |-> ref, valid |-> valid(e), err |-> ""]
                    /\ hist' = histGet(ref, FALSE, "")
               ELSE \E p \in {populate([e EXCEPT !.lset = IF labelsByRef.nil THEN @
                                                          ELSE labelsByRef.lset],
                                       target, externalLabels)} :
                       IF p.err # ""
                       THEN /\ entries' = Put(entries, ref, e)
                            /\ getRet' = [entry |-> NilEntry, valid |-> FALSE, err |-> p.err]
                            /\ hist' = histGet(ref, TRUE, p.err)
                       ELSE /\ entries' = Put(entries, ref, setNextRefresh(p.entry, delay))
                            /\ getRet' = [entry |-> ref, valid |-> valid(p.entry), err |-> ""]
                            /\ hist' = histGet(ref, TRUE, "")
            /\ UNCHANGED <<intervals, now, pc, call, ret, local, pre, rsScen, race, ivScen, loop, reloadVars, operatorVars>>

\* get(ref, target), with what the callbacks and the random source yield
\* during the call: labelsByRef is getLabelsByRef(ref), externalLabels is
\* getExternalLabels(), delay is the refresh delay setNextRefresh draws.
\* The returned entry pointer is the ref of the entry it points to.
get(ref, target, labelsByRef, externalLabels, delay) ==
    IF ~Has(entries, ref) /\ labelsByRef.nil
    THEN /\ getRet' = [ entry |-> NilEntry, valid |-> FALSE,
                        err |-> "series reference invalid" ]
         /\ hist' = histGet(ref, FALSE, "series reference invalid")
         /\ UNCHANGED <<entries, intervals, now, pc, call, ret, local, pre, rsScen, race,
                        ivScen, loop, reloadVars, operatorVars>>
    ELSE \E e \in {IF Has(entries, ref) THEN entries[ref] ELSE newEntry(labelsByRef.lset)} :
            /\ IF ~shouldRefresh(e)
               THEN /\ entries' = Put(entries, ref, e)
                    /\ getRet' = [entry |-> ref, valid |-> valid(e), err |-> ""]
                    /\ hist' = histGet(ref, FALSE, "")
               ELSE \E p \in {populate(e, target, externalLabels)} :
                       IF p.err # ""
                       THEN /\ entries' = Put(entries, ref, e)
                            /\ getRet' = [entry |-> NilEntry, valid |-> FALSE, err |-> p.err]
                            /\ hist' = histGet(ref, TRUE, p.err)
                       ELSE /\ entries' = Put(entries, ref, setNextRefresh(p.entry, delay))
                            /\ getRet' = [entry |-> ref, valid |-> valid(p.entry), err |-> ""]
                            /\ hist' = histGet(ref, TRUE, "")
            /\ UNCHANGED <<intervals, now, pc, call, ret, local, pre, rsScen, race, ivScen, loop, reloadVars, operatorVars>>

\* invalidateAll also clearing the counter reset state of every entry.
invalidateAllForgetting ==
    /\ entries' = [r \in DOMAIN entries |->
                      [entries[r] EXCEPT !.nextRefresh = 0, !.hasReset = FALSE,
                                         !.resetValue = 0, !.resetTimestamp = 0]]
    /\ UNCHANGED <<intervals, now, getRet, pc, call, ret, local, pre, rsScen, race, ivScen, loop,
                   hist, reloadVars, operatorVars>>

\* invalidateAll also forgetting every recorded interval.
invalidateAllDroppingIntervals ==
    /\ entries' = [r \in DOMAIN entries |-> [entries[r] EXCEPT !.nextRefresh = 0]]
    /\ intervals' = EmptyMap
    /\ UNCHANGED <<now, getRet, pc, call, ret, local, pre, rsScen, race, ivScen, loop, hist, reloadVars, operatorVars>>

\* invalidateAll: every entry is due for a refresh.
invalidateAll ==
    /\ entries' = [r \in DOMAIN entries |-> [entries[r] EXCEPT !.nextRefresh = 0]]
    /\ UNCHANGED <<intervals, now, getRet, pc, call, ret, local, pre, rsScen, race, ivScen, loop, hist, reloadVars, operatorVars>>

\* garbageCollect is not implemented: it logs and returns nil.
garbageCollect ==
    UNCHANGED <<entries, intervals, now, getRet, pc, call, ret, local, pre, rsScen, race,
                ivScen, hist, reloadVars, operatorVars>>
\* The error garbageCollect returns: nil.
garbageCollectErr == ""

\* -------------------------------------------------------------------- run
\* loop.pc is where run is: not started, at the select, in the tick case, or
\* returned. cancelled: ctx.Done() is closed. tick: a tick waits in tick.C.
\* ticks, sweeps, logged count the ticks received, the garbageCollect calls
\* returned and the errors logged. History: late is whether a tick case was
\* entered with ctx cancelled, absent is the set of refs whose series the
\* latest checkpoint no longer held when garbageCollect last ran.
NoLoop ==
    [ pc |-> "idle", cancelled |-> FALSE, tick |-> FALSE, ticks |-> 0, sweeps |-> 0,
      logged |-> 0, late |-> FALSE, absent |-> {} ]

loopStep(next) ==
    /\ loop' = next
    /\ UNCHANGED <<entries, intervals, now, getRet, pc, call, ret, local, pre, rsScen, race,
                   ivScen, hist, reloadVars, operatorVars>>

\* go c.run(ctx): tick := time.NewTicker(time.Minute)
runStart ==
    /\ loop.pc = "idle"
    /\ loopStep([loop EXCEPT !.pc = "select"])

\* The ticker sends on tick.C, a channel of capacity one; a stopped ticker
\* sends nothing.
TickerFires ==
    /\ loop.pc \in {"select", "collect"}
    /\ ~loop.tick
    /\ loop.ticks < MaxSweeps
    /\ loopStep([loop EXCEPT !.tick = TRUE])

\* The owner of ctx cancels it.
Cancel ==
    /\ ~loop.cancelled
    /\ loopStep([loop EXCEPT !.cancelled = TRUE])

\* runSelectDone taken without ctx.Done() being closed.
runSelectDoneAlways ==
    /\ loop.pc = "select"
    /\ loopStep([loop EXCEPT !.pc = "returned", !.tick = FALSE])

\* case <-ctx.Done(): return. The deferred tick.Stop() runs.
runSelectDone ==
    /\ loop.pc = "select"
    /\ loop.cancelled
    /\ loopStep([loop EXCEPT !.pc = "returned", !.tick = FALSE])

\* case <-tick.C: select takes any one of its ready cases.
runSelectTick ==
    /\ loop.pc = "select"
    /\ loop.tick
    /\ loopStep([loop EXCEPT !.pc = "collect", !.tick = FALSE, !.ticks = @ + 1,
                             !.late = @ \/ loop.cancelled])

\* if err := c.garbageCollect(); err != nil { level.Error(...).Log(...) }
runCollect ==
    /\ loop.pc = "collect"
    /\ garbageCollect
    /\ \E gone \in SUBSET Refs :
          loop' = [loop EXCEPT !.pc = "select", !.sweeps = @ + 1, !.absent = gone,
                               !.logged = IF garbageCollectErr # "" THEN @ + 1 ELSE @]

run == runStart \/ runSelectDone \/ runSelectTick \/ runCollect

\* The wall clock advances.
Tick ==
    /\ now + refreshInterval <= MaxNow
    /\ now' = now + refreshInterval
    /\ UNCHANGED <<entries, intervals, getRet, pc, call, ret, local, pre, rsScen, race, ivScen,
                   loop, hist, reloadVars, operatorVars>>

\* --------------------------------------------------------- getResetAdjusted
\* The reset tracking fields of an entry.
resetState(e) ==
    [hasReset |-> e.hasReset, resetValue |-> e.resetValue, resetTimestamp |-> e.resetTimestamp]

\* The samples of the counter scenario, in order, on ScenarioRef.
ResetScenario == << [t |-> 100, v |-> 5], [t |-> 110, v |-> 8], [t |-> 120, v |-> 2] >>

rsScenNext(w, result) ==
    IF call[w].key # ScenarioRef THEN rsScen
    ELSE IF /\ rsScen.on
            /\ Len(rsScen.res) < Len(ResetScenario)
            /\ ResetScenario[Len(rsScen.res) + 1] = [t |-> call[w].a, v |-> call[w].b]
         THEN [on |-> TRUE, res |-> Append(rsScen.res, result)]
         ELSE [on |-> FALSE, res |-> <<>>]

\* The statements of getResetAdjusted after the entry lookup run outside
\* c.mtx: each read and each write of an entry field is a step of its own.
graStep(w, from, to) ==
    /\ pc[w] = from
    /\ pc' = [pc EXCEPT ![w] = to]

\* A worker enters getResetAdjusted(ref, t, v) and waits for c.mtx.
CallGetResetAdjusted(w, ref, t, v) ==
    /\ graStep(w, "idle", "gra_lock")
    /\ call' = [call EXCEPT ![w] = [op |-> "getResetAdjusted", key |-> ref, a |-> t, b |-> v]]
    /\ race' = "none"
    /\ UNCHANGED <<entries, intervals, now, getRet, ret, local, pre, rsScen, ivScen, loop, hist, reloadVars, operatorVars>>

\* e, ok := c.entries[ref] under c.mtx; return 0, 0, false when there is none.
graLookup(w) ==
    /\ pc[w] = "gra_lock"
    /\ IF Has(entries, call[w].key)
       THEN /\ pc' = [pc EXCEPT ![w] = "gra_read"]
            /\ pre' = [pre EXCEPT ![w] = [found |-> TRUE] @@ resetState(entries[call[w].key])]
            /\ UNCHANGED ret
       ELSE /\ pc' = [pc EXCEPT ![w] = "done"]
            /\ ret' = [ret EXCEPT ![w] = [ts |-> 0, val |-> 0, ok |-> FALSE]]
            /\ UNCHANGED pre
    /\ hist' = histLookup(w)
    /\ UNCHANGED <<entries, intervals, now, getRet, call, local, rsScen, race, ivScen, loop, reloadVars, operatorVars>>

\* hasReset := e.hasReset
graReadHasReset(w) ==
    /\ graStep(w, "gra_read", "gra_set")
    /\ local' = [local EXCEPT ![w].hasReset = entries[call[w].key].hasReset]
    /\ UNCHANGED <<entries, intervals, now, getRet, call, ret, pre, rsScen, race, ivScen, loop, hist, reloadVars, operatorVars>>

\* graSetHasReset without the assignment to e.hasReset.
graSetHasResetSkipped(w) ==
    /\ graStep(w, "gra_set", IF local[w].hasReset THEN "gra_compare" ELSE "gra_init_ts")
    /\ UNCHANGED <<entries, intervals, now, getRet, call, ret, local, pre, rsScen, race,
                   ivScen, loop, hist, reloadVars, operatorVars>>

\* e.hasReset = true; if !hasReset { ... }
graSetHasReset(w) ==
    /\ graStep(w, "gra_set", IF local[w].hasReset THEN "gra_compare" ELSE "gra_init_ts")
    /\ entries' = [entries EXCEPT ![call[w].key].hasReset = TRUE]
    /\ UNCHANGED <<intervals, now, getRet, call, ret, local, pre, rsScen, race, ivScen, loop, hist, reloadVars, operatorVars>>

\* e.resetTimestamp = t
graInitTimestamp(w) ==
    /\ graStep(w, "gra_init_ts", "gra_init_val")
    /\ entries' = [entries EXCEPT ![call[w].key].resetTimestamp = call[w].a]
    /\ UNCHANGED <<intervals, now, getRet, call, ret, local, pre, rsScen, race, ivScen, loop, hist, reloadVars, operatorVars>>

\* e.resetValue = v; return 0, 0, false
graInitValue(w) ==
    /\ graStep(w, "gra_init_val", "done")
    /\ entries' = [entries EXCEPT ![call[w].key].resetValue = call[w].b]
    /\ ret' = [ret EXCEPT ![w] = [ts |-> 0, val |-> 0, ok |-> FALSE]]
    /\ rsScen' = rsScenNext(w, [ts |-> 0, val |-> 0, ok |-> FALSE])
    /\ hist' = histSample(w, [ts |-> 0, val |-> 0, ok |-> FALSE])
    /\ UNCHANGED <<intervals, now, getRet, call, local, pre, race, ivScen, loop, reloadVars, operatorVars>>

\* graCompare with v <= e.resetValue.
graCompareInclusive(w) ==
    /\ graStep(w, "gra_compare",
               IF call[w].b <= entries[call[w].key].resetValue
               THEN "gra_reset_val" ELSE "gra_ret_ts")
    /\ UNCHANGED <<entries, intervals, now, getRet, call, ret, local, pre, rsScen, race,
                   ivScen, loop, hist, reloadVars, operatorVars>>

\* if v < e.resetValue { ... }
graCompare(w) ==
    /\ graStep(w, "gra_compare",
               IF call[w].b < entries[call[w].key].resetValue
               THEN "gra_reset_val" ELSE "gra_ret_ts")
    /\ UNCHANGED <<entries, intervals, now, getRet, call, ret, local, pre, rsScen, race,
                   ivScen, loop, hist, reloadVars, operatorVars>>

\* e.resetValue = 0
graResetValue(w) ==
    /\ graStep(w, "gra_reset_val", "gra_reset_ts")
    /\ entries' = [entries EXCEPT ![call[w].key].resetValue = 0]
    /\ UNCHANGED <<intervals, now, getRet, call, ret, local, pre, rsScen, race, ivScen, loop, hist, reloadVars, operatorVars>>

\* graResetTimestamp with e.resetTimestamp = t.
graResetTimestampSame(w) ==
    /\ graStep(w, "gra_reset_ts", "gra_ret_ts")
    /\ entries' = [entries EXCEPT ![call[w].key].resetTimestamp = call[w].a]
    /\ UNCHANGED <<intervals, now, getRet, call, ret, local, pre, rsScen, race, ivScen, loop, hist, reloadVars, operatorVars>>

\* e.resetTimestamp = t - 1
graResetTimestamp(w) ==
    /\ graStep(w, "gra_reset_ts", "gra_ret_ts")
    /\ entries' = [entries EXCEPT ![call[w].key].resetTimestamp = call[w].a - 1]
    /\ UNCHANGED <<intervals, now, getRet, call, ret, local, pre, rsScen, race, ivScen, loop, hist, reloadVars, operatorVars>>

\* return e.resetTimestamp, ...: the first operand is read
graReadTimestamp(w) ==
    /\ graStep(w, "gra_ret_ts", "gra_ret_val")
    /\ local' = [local EXCEPT ![w].ts = entries[call[w].key].resetTimestamp]
    /\ UNCHANGED <<entries, intervals, now, getRet, call, ret, pre, rsScen, race, ivScen, loop, hist, reloadVars, operatorVars>>

\* return ..., v - e.resetValue, true: the second operand is read
graReturn(w) ==
    /\ graStep(w, "gra_ret_val", "done")
    /\ LET result == [ ts |-> local[w].ts,
                       val |-> call[w].b - entries[call[w].key].resetValue,
                       ok |-> TRUE ]
       IN /\ ret' = [ret EXCEPT ![w] = result]
          /\ rsScen' = rsScenNext(w, result)
          /\ hist' = histSample(w, result)
    /\ UNCHANGED <<entries, intervals, now, getRet, call, local, pre, race, ivScen, loop, reloadVars, operatorVars>>

\* The steps of an entered getResetAdjusted call.
getResetAdjusted(w) ==
    \/ graLookup(w)
    \/ graReadHasReset(w)
    \/ graSetHasReset(w)
    \/ graInitTimestamp(w)
    \/ graInitValue(w)
    \/ graCompare(w)
    \/ graResetValue(w)
    \/ graResetTimestamp(w)
    \/ graReadTimestamp(w)
    \/ graReturn(w)

\* ------------------------------------------------------------------- inputs
\* The label sets getLabelsByRef hands out.
CounterSeries ==
    ("__name__" :> "http_requests_total") @@ ("job" :> "a") @@ ("instance" :> "1:9090")
NoJobSeries == ("__name__" :> "up") @@ ("instance" :> "1:9090")
ManyLabelSeries == CounterSeries @@ ("x" :> "1") @@ ("y" :> "2") @@ ("z" :> "3")
SummaryBucketSeries ==
    ("__name__" :> "lat_bucket") @@ ("job" :> "a") @@ ("instance" :> "1:9090")
SeriesLabels == {CounterSeries, NoJobSeries, ManyLabelSeries, SummaryBucketSeries}
LabelsByRef == {NilLabels} \cup {SomeLabels(l) : l \in SeriesLabels}

\* The scrape targets get is called with.
FullTarget ==
    ("http_requests" :> Metadata("http_requests", "counter"))
        @@ ("lat" :> Metadata("lat", "summary"))
OddTarget ==
    ("http_requests" :> Metadata("http_requests", "info"))
        @@ ("lat" :> Metadata("lat", "summary"))
EmptyTarget == EmptyMap
Targets == {FullTarget, OddTarget, EmptyTarget}

\* What getExternalLabels returns.
NoExternalLabels == EmptyLabels
SomeExternalLabels == ("location" :> "us") @@ ("cluster" :> "c") @@ ("x" :> "9")
ExternalLabels == {NoExternalLabels, SomeExternalLabels}

\* The samples handed to getResetAdjusted.
SampleTimes == {100, 110, 120}
SampleValues == {2, 5, 8}

\* The inputs a get(ref, ...) can consume: getLabelsByRef is called on a miss
\* only; the target, the external labels and the random source are read by a
\* refresh only.
GetInputs(ref) ==
    IF ~Has(entries, ref)
    THEN Targets \X LabelsByRef \X ExternalLabels \X RefreshDelays
    ELSE IF shouldRefresh(entries[ref])
    THEN Targets \X {NilLabels} \X ExternalLabels \X RefreshDelays
    ELSE {<<EmptyTarget, NilLabels, NoExternalLabels, refreshInterval>>}

\* get as the interval and counter specifications use it: one fixed series.
getCounterSeries(ref) ==
    get(ref, FullTarget, SomeLabels(CounterSeries), NoExternalLabels, refreshInterval)

\* ------------------------------------------------- rule-evaluator: reloading
\* The requests served on /-/reload.
Requests == {"r1", "r2"}

\* What makes the reload handler call reloadConfig: the signal or a request.
Triggers == {"hup"} \cup Requests

\* The names of the reloaders, in the order of the slice.
Reloaders == <<"notify", "exporter", "notify_sd", "rules">>

\* The last second of the rule-evaluator's clock.
MaxReloadNow == 3

\* No call of reloadConfig.  loaded, invoked and outcomes are history: whether
\* the file loaded, the reloaders invoked and whether each returned nil.
NoFrame ==
    [ pc |-> "none", i |-> 0, failed |-> FALSE, ret |-> "none",
      loaded |-> FALSE, invoked |-> <<>>, outcomes |-> <<>> ]

NoRequest == [pc |-> "idle", status |-> 0, replies |-> 0]

\* The reload handler starts after the initial reloadConfig returned nil.
reloadInit ==
    /\ configMetrics = [lastReloadSuccess |-> TRUE, lastReloadSuccessTime |-> 1]
    /\ frames = [t \in Triggers |-> NoFrame]
    /\ handler = [pc |-> "select", rc |-> "none"]
    /\ hup = 0
    /\ http = [c \in Requests |-> NoRequest]
    /\ interrupt = "idle"

setSuccess(m) == [lastReloadSuccess |-> TRUE, lastReloadSuccessTime |-> now]

setFailure(m) == [m EXCEPT !.lastReloadSuccess = FALSE]

\* reloadConfig is entered for trigger t.
reloadConfigCalled(t) == [frames EXCEPT ![t] = [NoFrame EXCEPT !.pc = "load"]]

\* config.LoadFile returns, with the configuration (ok) or with an error.
reloadConfigLoad(t, ok) ==
    /\ frames[t].pc = "load"
    /\ IF ok
       THEN /\ frames' = [frames EXCEPT ![t].pc = "reloaders", ![t].i = 1,
                                        ![t].loaded = TRUE]
            /\ UNCHANGED configMetrics
       ELSE /\ configMetrics' = setFailure(configMetrics)
            /\ frames' = [frames EXCEPT ![t].pc = "returned", ![t].ret = "err"]
    /\ UNCHANGED <<handler, hup, http, interrupt, now, cacheState, operatorVars>>

\* The loop over the reloaders ending at the first one that fails.
reloadConfigReloaderBreaking(t, ok) ==
    /\ frames[t].pc = "reloaders"
    /\ frames[t].i <= Len(Reloaders)
    /\ frames' = [frames EXCEPT
                    ![t].invoked = Append(@, Reloaders[frames[t].i]),
                    ![t].outcomes = Append(@, ok),
                    ![t].failed = @ \/ ~ok,
                    ![t].i = IF ok THEN @ + 1 ELSE Len(Reloaders) + 1]
    /\ UNCHANGED <<configMetrics, handler, hup, http, interrupt, now, cacheState, operatorVars>>

\* One turn of the loop over the reloaders: rl.reloader(conf) returns nil (ok)
\* or an error.
reloadConfigReloader(t, ok) ==
    /\ frames[t].pc = "reloaders"
    /\ frames[t].i <= Len(Reloaders)
    /\ frames' = [frames EXCEPT
                    ![t].invoked = Append(@, Reloaders[frames[t].i]),
                    ![t].outcomes = Append(@, ok),
                    ![t].failed = @ \/ ~ok,
                    ![t].i = @ + 1]
    /\ UNCHANGED <<configMetrics, handler, hup, http, interrupt, now, cacheState, operatorVars>>

\* After the loop: the failure or the success is recorded and returned.
reloadConfigReturn(t) ==
    /\ frames[t].pc = "reloaders"
    /\ frames[t].i > Len(Reloaders)
    /\ IF frames[t].failed
       THEN /\ configMetrics' = setFailure(configMetrics)
            /\ frames' = [frames EXCEPT ![t].pc = "returned", ![t].ret = "err"]
       ELSE /\ configMetrics' = setSuccess(configMetrics)
            /\ frames' = [frames EXCEPT ![t].pc = "returned", ![t].ret = "nil"]
    /\ UNCHANGED <<handler, hup, http, interrupt, now, cacheState, operatorVars>>

\* SIGHUP is delivered: signal.Notify sends without blocking, so a signal that
\* finds the channel full is dropped.
sighup ==
    /\ hup' = 1
    /\ UNCHANGED <<configMetrics, frames, handler, http, interrupt, now, cacheState, operatorVars>>

\* A reload handler that runs the reload for SIGHUP in a goroutine of its
\* own and goes on selecting.
handlerSelectHupSpawning ==
    /\ handler.pc = "select"
    /\ hup = 1
    /\ frames["hup"].pc = "none"
    /\ hup' = 0
    /\ frames' = reloadConfigCalled("hup")
    /\ UNCHANGED <<handler, configMetrics, http, interrupt, now, cacheState, operatorVars>>

\* select takes case <-hup and calls reloadConfig.
handlerSelectHup ==
    /\ handler.pc = "select"
    /\ hup = 1
    /\ hup' = 0
    /\ handler' = [pc |-> "hup", rc |-> "none"]
    /\ frames' = reloadConfigCalled("hup")
    /\ UNCHANGED <<configMetrics, http, interrupt, now, cacheState, operatorVars>>

\* reloadConfig returned to case <-hup: the error is logged.
handlerHupDone ==
    /\ handler.pc = "hup"
    /\ frames["hup"].pc = "returned"
    /\ handler' = [pc |-> "select", rc |-> "none"]
    /\ frames' = [frames EXCEPT !["hup"] = NoFrame]
    /\ UNCHANGED <<configMetrics, hup, http, interrupt, now, cacheState, operatorVars>>

\* select takes case rc := <-reloadCh from the request c blocked in its send,
\* and calls reloadConfig.
handlerSelectReloadCh(c) ==
    /\ handler.pc = "select"
    /\ http[c].pc = "send"
    /\ http' = [http EXCEPT ![c].pc = "recv"]
    /\ handler' = [pc |-> "request", rc |-> c]
    /\ frames' = reloadConfigCalled(c)
    /\ UNCHANGED <<configMetrics, hup, interrupt, now, cacheState, operatorVars>>

\* reloadConfig returned to case rc := <-reloadCh: rc <- err or rc <- nil meets
\* the request waiting in <-rc, which answers 500 on an error.
handlerReply ==
    /\ handler.pc = "request"
    /\ frames[handler.rc].pc = "returned"
    /\ http[handler.rc].pc = "recv"
    /\ http' = [http EXCEPT ![handler.rc] =
                  [ pc |-> "done",
                    status |-> IF frames[handler.rc].ret = "nil" THEN 200 ELSE 500,
                    replies |-> @.replies + 1 ]]
    /\ handler' = [pc |-> "select", rc |-> "none"]
    /\ frames' = [frames EXCEPT ![handler.rc] = NoFrame]
    /\ UNCHANGED <<configMetrics, hup, interrupt, now, cacheState, operatorVars>>

\* select takes case <-cancel from the interrupt function blocked in its send:
\* the actor returns nil and the interrupt function returns.
handlerSelectCancel ==
    /\ handler.pc = "select"
    /\ interrupt = "send"
    /\ handler' = [pc |-> "returned", rc |-> "none"]
    /\ interrupt' = "returned"
    /\ UNCHANGED <<configMetrics, frames, hup, http, now, cacheState, operatorVars>>

\* The run group calls the interrupt function, which blocks in cancel <- struct{}{}.
interruptCalled ==
    /\ interrupt = "idle"
    /\ interrupt' = "send"
    /\ UNCHANGED <<configMetrics, frames, handler, hup, http, now, cacheState, operatorVars>>

\* A POST on /-/reload: rc is made and the goroutine blocks in reloadCh <- rc.
httpPost(c) ==
    /\ http[c].pc = "idle"
    /\ http' = [http EXCEPT ![c].pc = "send"]
    /\ UNCHANGED <<configMetrics, frames, handler, hup, interrupt, now, cacheState, operatorVars>>

\* Any other method on /-/reload is answered on the spot.
httpOtherMethod(c) ==
    /\ http[c].pc = "idle"
    /\ http' = [http EXCEPT ![c].pc = "done", ![c].status = 405]
    /\ UNCHANGED <<configMetrics, frames, handler, hup, interrupt, now, cacheState, operatorVars>>

\* A second passes on the rule-evaluator's clock.
Elapse ==
    /\ now < MaxReloadNow
    /\ now' = now + 1
    /\ UNCHANGED <<cacheState, reloadVars, operatorVars>>

\* ----------------------------------------------------------- operator options
DefaultOperatorNamespace == "gmp-system"

DefaultPublicNamespace == "gmp-public"

ImageCollector == "gke.gcr.io/prometheus-engine/prometheus:v2.35.0-gmp.2-gke.0"

ImageConfigReloader == "gke.gcr.io/prometheus-engine/config-reloader:v0.4.2-gke.0"

ImageRuleEvaluator == "gke.gcr.io/prometheus-engine/rule-evaluator:v0.4.2-gke.0"

Modes == {"kubectl", "gke", "gke-auto", "on-prem", "baremetal"}

\* The zero value of Options, with the fields defaultAndValidate reads.
ZeroOptions ==
    [ ProjectID |-> "", Cluster |-> "", OperatorNamespace |-> "", PublicNamespace |-> "",
      CollectorPort |-> 0, ImageCollector |-> "", ImageConfigReloader |-> "",
      ImageRuleEvaluator |-> "", CollectorCPUResource |-> 0, CollectorMemoryResource |-> 0,
      CollectorMemoryLimit |-> 0, EvaluatorCPUResource |-> 0, EvaluatorMemoryResource |-> 0,
      EvaluatorMemoryLimit |-> 0, Mode |-> "" ]

\* The fields as defaultAndValidate leaves them: every default is applied in
\* source order, up to the return of a validation error.
defaultedFields(o) ==
    LET o1 == [o EXCEPT
                 !.OperatorNamespace = IF @ = "" THEN DefaultOperatorNamespace ELSE @,
                 !.PublicNamespace = IF @ = "" THEN DefaultOperatorNamespace ELSE @,
                 !.CollectorPort = IF @ = 0 THEN 19090 ELSE @,
                 !.ImageCollector = IF @ = "" THEN ImageCollector ELSE @,
                 !.ImageConfigReloader = IF @ = "" THEN ImageConfigReloader ELSE @,
                 !.ImageRuleEvaluator = IF @ = "" THEN ImageRuleEvaluator ELSE @]
        o2 == [o1 EXCEPT
                 !.CollectorCPUResource = IF @ <= 0 THEN 100 ELSE @,
                 !.CollectorMemoryResource = IF @ <= 0 THEN 200 ELSE @]
        o3 == [o2 EXCEPT
                 !.CollectorMemoryLimit =
                     IF @ <= o2.CollectorMemoryResource
                     THEN o2.CollectorMemoryResource * 15 ELSE @,
                 !.EvaluatorCPUResource = IF @ <= 0 THEN 100 ELSE @,
                 !.EvaluatorMemoryResource = IF @ <= 0 THEN 200 ELSE @]
        o4 == [o3 EXCEPT
                 !.EvaluatorMemoryLimit =
                     IF @ <= o3.EvaluatorMemoryResource
                     THEN o3.EvaluatorMemoryResource * 15 ELSE @]
    IN IF o1.ProjectID = "" \/ o1.Cluster = "" THEN o1 ELSE o4

\* The error defaultAndValidate returns, "" for nil.
validationError(o) ==
    IF o.ProjectID = "" THEN "ProjectID must be set"
    ELSE IF o.Cluster = "" THEN "Cluster must be set"
    ELSE IF o.Mode \notin Modes THEN "--mode must be one of"
    ELSE ""

\* Options.defaultAndValidate, called once on the options given to New.  given
\* is history: the options as they were passed.
defaultAndValidate ==
    /\ ~opts.called
    /\ opts' = [ o |-> defaultedFields(opts.o), called |-> TRUE,
                 err |-> validationError(opts.o), given |-> opts.o ]
    /\ UNCHANGED <<cluster, reconcile, now, cacheState, reloadVars>>

\* The options passed to New.
GivenOptions ==
    { [ZeroOptions EXCEPT !.ProjectID = p, !.Cluster = c, !.OperatorNamespace = on,
                          !.PublicNamespace = pn, !.CollectorPort = port, !.Mode = mode,
                          !.ImageCollector = img, !.CollectorMemoryResource = mem,
                          !.CollectorMemoryLimit = lim] :
        p \in {"", "proj"}, c \in {"", "c1"},
        on \in {"", DefaultOperatorNamespace, "monitoring"},
        pn \in {"", DefaultPublicNamespace, "monitoring"},
        port \in {0, 19091}, mode \in {"", "kubectl", "gke"},
        img \in {"", "custom"}, mem \in {0, 300}, lim \in {0, 5000} }

\* No call of defaultAndValidate on the options o.
NotCalled(o) == [o |-> o, called |-> FALSE, err |-> "", given |-> o]

\* -------------------------------------------------- operator: OperatorConfig
\* The zero value of RuleEvaluatorSpec: what config.Rules is while nothing
\* has been fetched into config.
EmptyRules == [ProjectID |-> "", Credentials |-> FALSE]

\* The rule-evaluator specs an OperatorConfig may carry.
RuleEvaluatorSpecs ==
    { EmptyRules, [ProjectID |-> "other", Credentials |-> FALSE],
      [ProjectID |-> "other", Credentials |-> TRUE] }

\* The files mirrored for a spec: the credentials, if it selects any.
secretDataOf(spec) == IF spec.Credentials THEN {"credentials"} ELSE {}

\* An object that does not exist in the cluster, and one that does.
NoObject == [exists |-> FALSE]

Object(content) == [exists |-> TRUE, content |-> content]

\* The cluster with no OperatorConfig and nothing deployed.
EmptyCluster ==
    [ operatorConfig |-> NoObject, configMap |-> NoObject, secret |-> NoObject,
      deployment |-> NoObject ]

\* No call of Reconcile.  steps is history: the steps run, each with its
\* argument and whether it returned nil.
NoReconcile == [called |-> FALSE, fetched |-> "", steps |-> <<>>, err |-> ""]

reconcileInit ==
    /\ cluster = EmptyCluster
    /\ reconcile = NoReconcile

operatorInit ==
    /\ opts = NotCalled(ZeroOptions)
    /\ reconcileInit

\* What r.client.Get may return for the OperatorConfig: the object or
\* NotFound as the cluster has it, or another error.
GetResults == {IF ~cluster.operatorConfig.exists THEN "notfound" ELSE "found", "error"}

Step(name, arg, ok) == [name |-> name, arg |-> arg, ok |-> ok]

\* Reconcile going on to the deployment after ensureRuleEvaluatorSecrets
\* failed.
ReconcileIgnoringSecrets(fetched, ok) ==
    LET rules == IF fetched = "found" THEN cluster.operatorConfig.content ELSE EmptyRules
        config == Step("ensureRuleEvaluatorConfig", rules, ok[1])
        secrets == Step("ensureRuleEvaluatorSecrets", secretDataOf(rules), ok[2])
        deploy == Step("ensureRuleEvaluatorDeployment", rules, ok[3])
        done(steps, err) == [called |-> TRUE, fetched |-> fetched, steps |-> steps, err |-> err]
    IN /\ fetched \in GetResults
       /\ IF fetched = "error"
          THEN /\ reconcile' = done(<<>>, "fetched operatorconfig for incoming")
               /\ UNCHANGED cluster
          ELSE IF ~ok[1]
          THEN /\ reconcile' = done(<<config>>, "ensure rule-evaluator config")
               /\ UNCHANGED cluster
          ELSE IF ~ok[3]
          THEN /\ reconcile' = done(<<config, secrets, deploy>>, "ensure rule-evaluator deploy")
               /\ cluster' = [cluster EXCEPT !.configMap = Object(rules),
                                             !.secret = IF ok[2] THEN Object(secretDataOf(rules)) ELSE @]
          ELSE /\ reconcile' = done(<<config, secrets, deploy>>, "")
               /\ cluster' = [cluster EXCEPT !.configMap = Object(rules),
                                             !.secret = IF ok[2] THEN Object(secretDataOf(rules)) ELSE @,
                                             !.deployment = Object(rules)]
       /\ UNCHANGED <<opts, now, cacheState, reloadVars>>

\* operatorConfigReconciler.Reconcile.  fetched is what r.client.Get returned and
\* ok[i] whether the i-th ensure step, if it is run, returns nil; a step that
\* returns nil has upserted its object.
Reconcile(fetched, ok) ==
    LET rules == IF fetched = "found" THEN cluster.operatorConfig.content ELSE EmptyRules
        config == Step("ensureRuleEvaluatorConfig", rules, ok[1])
        secrets == Step("ensureRuleEvaluatorSecrets", secretDataOf(rules), ok[2])
        deploy == Step("ensureRuleEvaluatorDeployment", rules, ok[3])
        done(steps, err) == [called |-> TRUE, fetched |-> fetched, steps |-> steps, err |-> err]
    IN /\ fetched \in GetResults
       /\ IF fetched = "error"
          THEN /\ reconcile' = done(<<>>, "fetched operatorconfig for incoming")
               /\ UNCHANGED cluster
          ELSE IF ~ok[1]
          THEN /\ reconcile' = done(<<config>>, "ensure rule-evaluator config")
               /\ UNCHANGED cluster
          ELSE IF ~ok[2]
          THEN /\ reconcile' = done(<<config, secrets>>, "ensure rule-evaluator secrets")
               /\ cluster' = [cluster EXCEPT !.configMap = Object(rules)]
          ELSE IF ~ok[3]
          THEN /\ reconcile' = done(<<config, secrets, deploy>>, "ensure rule-evaluator deploy")
               /\ cluster' = [cluster EXCEPT !.configMap = Object(rules),
                                             !.secret = Object(secretDataOf(rules))]
          ELSE /\ reconcile' = done(<<config, secrets, deploy>>, "")
               /\ cluster' = [cluster EXCEPT !.configMap = Object(rules),
                                             !.secret = Object(secretDataOf(rules)),
                                             !.deployment = Object(rules)]
       /\ UNCHANGED <<opts, now, cacheState, reloadVars>>

\* A user creates or updates the OperatorConfig.
applyOperatorConfig(spec) ==
    /\ cluster' = [cluster EXCEPT !.operatorConfig = Object(spec)]
    /\ UNCHANGED <<reconcile, opts, now, cacheState, reloadVars>>

\* A user deletes the OperatorConfig.
deleteOperatorConfig ==
    /\ cluster.operatorConfig.exists
    /\ cluster' = [cluster EXCEPT !.operatorConfig = NoObject]
    /\ UNCHANGED <<reconcile, opts, now, cacheState, reloadVars>>

\* ------------------------------------------------------------ specifications
\* The series cache after construction.
cacheInit ==
    /\ entries = EmptyMap
    /\ intervals = EmptyMap
    /\ now = 1
    /\ getRet = NoGetRet
    /\ pc = [w \in Workers |-> "idle"]
    /\ call = [w \in Workers |-> NoCall]
    /\ ret = [w \in Workers |-> NoRet]
    /\ local = [w \in Workers |-> NoLocal]
    /\ pre = [w \in Workers |-> NoPre]
    /\ rsScen = [on |-> TRUE, res |-> <<>>]
    /\ race = "none"
    /\ ivScen = [on |-> TRUE, res |-> <<>>]
    /\ loop = NoLoop
    /\ hist = NoHist

\* The state after construction.
Init ==
    /\ cacheInit
    /\ reloadInit
    /\ operatorInit

\* The state after construction, with the calls on ScenarioRef recorded.
InitRecording ==
    /\ entries = EmptyMap
    /\ intervals = EmptyMap
    /\ now = 1
    /\ getRet = NoGetRet
    /\ pc = [w \in Workers |-> "idle"]
    /\ call = [w \in Workers |-> NoCall]
    /\ ret = [w \in Workers |-> NoRet]
    /\ local = [w \in Workers |-> NoLocal]
    /\ pre = [w \in Workers |-> NoPre]
    /\ rsScen = [on |-> TRUE, res |-> <<>>]
    /\ race = "none"
    /\ ivScen = [on |-> TRUE, res |-> <<>>]
    /\ loop = NoLoop
    /\ hist = Recording
    /\ reloadInit
    /\ operatorInit

\* get under every input, with invalidateAll, the garbage collector and the
\* clock, and one worker recording intervals.
Next ==
    \/ \E r \in Refs : \E in \in GetInputs(r) : get(r, in[1], in[2], in[3], in[4])
    \/ invalidateAll
    \/ garbageCollect /\ UNCHANGED loop
    \/ Tick
    \/ \E w \in Solo :
        \/ \E s \in {0, 10} : CallUpdateSampleInterval(w, ScenarioHash, s, 10)
        \/ updateSampleInterval(w)
        \/ Return(w)

Spec == Init /\ [][Next]_vars

\* One worker calling updateSampleInterval: over the time grid on
\* ScenarioHash, over the coarser grid on the other hash.
NextInterval ==
    \/ \E w \in Solo :
        \/ \E s \in IntervalTimes, e \in IntervalTimes :
               CallUpdateSampleInterval(w, ScenarioHash, s, e)
        \/ \E h \in Hashes \ {ScenarioHash}, s \in RaceTimes, e \in RaceTimes :
               CallUpdateSampleInterval(w, h, s, e)
        \/ updateSampleInterval(w)
        \/ Return(w)
    \/ getCounterSeries(ScenarioRef)

SpecInterval == Init /\ [][NextInterval]_vars

\* Two workers calling updateSampleInterval concurrently.
NextIntervalRace ==
    \E w \in Workers :
        \/ \E h \in Hashes, s \in RaceTimes, e \in RaceTimes :
               CallUpdateSampleInterval(w, h, s, e)
        \/ updateSampleInterval(w)
        \/ Return(w)

SpecIntervalRace == Init /\ [][NextIntervalRace]_vars

\* One worker calling getResetAdjusted: no two calls overlap.
NextReset ==
    \/ \E w \in Solo :
        \/ \E r \in Refs, t \in SampleTimes, v \in SampleValues :
               CallGetResetAdjusted(w, r, t, v)
        \/ getResetAdjusted(w)
        \/ Return(w)
    \/ \E r \in Refs : getCounterSeries(r)

SpecReset == Init /\ [][NextReset]_vars

\* Two workers calling getResetAdjusted concurrently on one series.
NextResetRace ==
    \/ \E w \in Workers :
        \/ \E i \in DOMAIN ResetScenario :
               CallGetResetAdjusted(w, ScenarioRef, ResetScenario[i].t, ResetScenario[i].v)
        \/ getResetAdjusted(w)
        \/ Return(w)
    \/ getCounterSeries(ScenarioRef)

SpecResetRace == Init /\ [][NextResetRace]_vars

\* get under every input, with invalidateAll and the clock.
NextGet ==
    \/ \E r \in Refs : \E in \in GetInputs(r) : get(r, in[1], in[2], in[3], in[4])
    \/ invalidateAll
    \/ Tick

SpecGet == Init /\ [][NextGet]_vars

\* The series, targets and external labels of the conversion specification.
Identity == ("job" :> "a") @@ ("instance" :> "1:9090")
UpSeries == ("__name__" :> "up") @@ Identity
TempSeries == ("__name__" :> "temp") @@ Identity
LatSeries == ("__name__" :> "lat") @@ Identity
LatSumSeries == ("__name__" :> "lat_sum") @@ Identity
LatCountSeries == ("__name__" :> "lat_count") @@ Identity
LatBucketSeries == ("__name__" :> "lat_bucket") @@ ("le" :> "1") @@ Identity
NoInstanceSeries == ("__name__" :> "up") @@ ("job" :> "a")
OwnLocationSeries == CounterSeries @@ ("location" :> "eu") @@ ("x" :> "1")
ConvertSeries ==
    { CounterSeries, UpSeries, TempSeries, LatSeries, LatSumSeries, LatCountSeries,
      LatBucketSeries, NoJobSeries, NoInstanceSeries, ManyLabelSeries, OwnLocationSeries }

SummaryTarget ==
    ("http_requests" :> Metadata("http_requests", "counter"))
        @@ ("lat" :> Metadata("lat", "summary"))
        @@ ("temp" :> Metadata("temp", "gauge"))
HistogramTarget ==
    ("lat" :> Metadata("lat", "histogram"))
        @@ ("temp" :> Metadata("temp", "unknown"))
        @@ ("up" :> Metadata("up", "counter"))
ConvertTargets == {SummaryTarget, HistogramTarget}

CollidingExternalLabels ==
    ("location" :> "us") @@ ("cluster" :> "c") @@ ("job" :> "ext")
        @@ ("instance" :> "ext") @@ ("x" :> "9")
ConvertExternalLabels == {NoExternalLabels, CollidingExternalLabels}

\* get on one ref over the conversion catalogue, with invalidateAll and the
\* clock.
NextConvert ==
    \/ \E l \in ConvertSeries, tg \in ConvertTargets, x \in ConvertExternalLabels :
           get(ScenarioRef, tg, SomeLabels(l), x, refreshInterval)
    \/ invalidateAll
    \/ Tick

SpecConvert == Init /\ [][NextConvert]_vars

\* The background loop with its ticker and its context, and get and
\* invalidateAll on the cache it sweeps.
NextRun ==
    \/ run
    \/ TickerFires
    \/ Cancel
    \/ \E r \in Refs : getCounterSeries(r)
    \/ invalidateAll

SpecRun == Init /\ [][NextRun]_vars

\* run is scheduled while it has a step to take, and a select that is entered
\* again and again with ctx.Done() closed takes that case in the end.
SpecRunFair ==
    /\ SpecRun
    /\ WF_vars(runStart) /\ WF_vars(runCollect) /\ WF_vars(runSelectTick)
    /\ SF_vars(runSelectDone)

\* One series through its life: get creating and refreshing its entry under a
\* target that converts it and one that does not, invalidateAll, the clock,
\* and one worker handing in its samples and recording their intervals.
LifecycleTargets == {FullTarget, OddTarget}
NextLifecycle ==
    \/ \E tg \in LifecycleTargets, d \in RefreshDelays :
           get(ScenarioRef, tg, SomeLabels(CounterSeries), NoExternalLabels, d)
    \/ invalidateAll
    \/ Tick
    \/ \E w \in Solo :
        \/ \E i \in DOMAIN ResetScenario :
               CallGetResetAdjusted(w, ScenarioRef, ResetScenario[i].t, ResetScenario[i].v)
        \/ getResetAdjusted(w)
        \/ \E s \in {0, 5, 10} : CallUpdateSampleInterval(w, ScenarioHash, s, 10)
        \/ updateSampleInterval(w)
        \/ Return(w)

SpecLifecycle == InitRecording /\ [][NextLifecycle]_vars

\* Two refs whose series convert to one descriptor or to different ones, and
\* one worker recording intervals under the hash of a cached valid entry.
LocatedSeries == CounterSeries @@ ("location" :> "us") @@ ("cluster" :> "c") @@ ("x" :> "9")
HashSeries == {CounterSeries, LocatedSeries, TempSeries}
NextHash ==
    \/ \E r \in Refs, l \in HashSeries, x \in ExternalLabels :
           get(r, SummaryTarget, SomeLabels(l), x, refreshInterval)
    \/ Tick
    \/ \E w \in Solo :
        \/ \E r \in DOMAIN entries, s \in {0, 10} :
               /\ valid(entries[r])
               /\ CallUpdateSampleInterval(w, entries[r].hash, s, 10)
        \/ updateSampleInterval(w)
        \/ Return(w)

SpecHash == Init /\ [][NextHash]_vars

\* One worker calling getResetAdjusted, with the calls on ScenarioRef recorded.
SpecSamples == InitRecording /\ [][NextReset]_vars

\* One worker calling updateSampleInterval with candidates that do not end
\* before they start.
NextIntervalOrdered ==
    \/ \E w \in Solo :
        \/ \E s \in IntervalTimes, e \in IntervalTimes :
               s <= e /\ CallUpdateSampleInterval(w, ScenarioHash, s, e)
        \/ \E h \in Hashes \ {ScenarioHash}, s \in RaceTimes, e \in RaceTimes :
               s <= e /\ CallUpdateSampleInterval(w, h, s, e)
        \/ updateSampleInterval(w)
        \/ Return(w)
    \/ getCounterSeries(ScenarioRef)

SpecIntervalOrdered == Init /\ [][NextIntervalOrdered]_vars

\* get on refs for which getLabelsByRef, whenever it is asked, may answer
\* with either of two label sets or with none.
RelabelLabels == {NilLabels, SomeLabels(CounterSeries), SomeLabels(TempSeries)}
NextRelabel ==
    \/ \E r \in Refs, l \in RelabelLabels, d \in RefreshDelays :
           get(r, SummaryTarget, l, NoExternalLabels, d)
    \/ invalidateAll
    \/ Tick

SpecRelabel == InitRecording /\ [][NextRelabel]_vars

\* The rule-evaluator after its initial load: signals, two requests on
\* /-/reload, the reload handler and the interrupt of its actor.
NextReload ==
    \/ sighup
    \/ \E c \in Requests : httpPost(c)
    \/ \E c \in Requests : httpOtherMethod(c)
    \/ handlerSelectHup
    \/ handlerHupDone
    \/ \E c \in Requests : handlerSelectReloadCh(c)
    \/ handlerReply
    \/ handlerSelectCancel
    \/ interruptCalled
    \/ \E t \in Triggers, ok \in BOOLEAN : reloadConfigLoad(t, ok)
    \/ \E t \in Triggers, ok \in BOOLEAN : reloadConfigReloader(t, ok)
    \/ \E t \in Triggers : reloadConfigReturn(t)
    \/ Elapse

SpecReload == Init /\ [][NextReload]_vars

\* The handler goroutine is scheduled, and config.LoadFile and every reloader
\* return.
SpecReloadFair ==
    /\ SpecReload
    /\ WF_vars(handlerSelectHup \/ (\E c \in Requests : handlerSelectReloadCh(c))
                 \/ handlerSelectCancel)
    /\ WF_vars(handlerHupDone)
    /\ WF_vars(handlerReply)
    /\ WF_vars(\E t \in Triggers, ok \in BOOLEAN : reloadConfigLoad(t, ok))
    /\ WF_vars(\E t \in Triggers, ok \in BOOLEAN : reloadConfigReloader(t, ok))
    /\ WF_vars(\E t \in Triggers : reloadConfigReturn(t))

\* The options given to New, before defaultAndValidate.
InitOptions ==
    /\ cacheInit
    /\ reloadInit
    /\ reconcileInit
    /\ opts \in { NotCalled(o) : o \in GivenOptions }

NextOptions == defaultAndValidate

SpecOptions == InitOptions /\ [][NextOptions]_vars

\* The OperatorConfig applied and deleted by users, and reconciled.
NextReconcile ==
    \/ \E fetched \in {"found", "notfound", "error"}, ok \in [1..3 -> BOOLEAN] :
           Reconcile(fetched, ok)
    \/ \E spec \in RuleEvaluatorSpecs : applyOperatorConfig(spec)
    \/ deleteOperatorConfig

SpecReconcile == Init /\ [][NextReconcile]_vars

\* ---------------------------------------------------------------- properties
IsCall(w, op) == pc[w] = "done" /\ call[w].op = op
Candidate(w) == sampleInterval(call[w].a, call[w].b)

\* C1 as amended: on a hash with a recorded interval (s0, e0),
\* updateSampleInterval(start, end) returns true if and only if
\* (start = s0 and end > e0) or (start > s0 and start >= e0).
C1_AcceptsIffAmended ==
    [][\A w \in Workers :
          (updateSampleInterval(w) /\ Has(intervals, call[w].key)) =>
              LET s0 == intervals[call[w].key].start
                  e0 == intervals[call[w].key].end
                  start == call[w].a
                  end == call[w].b
              IN ret'[w].ok <=>
                    ((start = s0 /\ end > e0) \/ (start > s0 /\ start >= e0))]_vars

\* C1 as stated: on a hash with a recorded interval (s0, e0),
\* updateSampleInterval(start, end) returns true if and only if
\* (start = s0 and end > e0) or (start >= e0).
C1_AcceptsIffStated ==
    [][\A w \in Workers :
          (updateSampleInterval(w) /\ Has(intervals, call[w].key)) =>
              LET s0 == intervals[call[w].key].start
                  e0 == intervals[call[w].key].end
                  start == call[w].a
                  end == call[w].b
              IN ret'[w].ok <=> ((start = s0 /\ end > e0) \/ (start >= e0))]_vars

\* A candidate that starts at or after the recorded end has been rejected.
C1_Witness ==
    /\ IsCall("w1", "updateSampleInterval")
    /\ ~ret["w1"].ok
    /\ Has(intervals, call["w1"].key)
    /\ call["w1"].a >= intervals[call["w1"].key].end

\* The reset state an entry holds and the value returned after one
\* getResetAdjusted(t, v) that runs alone on reset state st.
SeqGetResetAdjusted(st, t, v) ==
    IF ~st.hasReset
    THEN [ state |-> [hasReset |-> TRUE, resetValue |-> v, resetTimestamp |-> t],
           ret |-> [ts |-> 0, val |-> 0, ok |-> FALSE] ]
    ELSE IF v < st.resetValue
    THEN [ state |-> [hasReset |-> TRUE, resetValue |-> 0, resetTimestamp |-> t - 1],
           ret |-> [ts |-> t - 1, val |-> v, ok |-> TRUE] ]
    ELSE [ state |-> [hasReset |-> TRUE, resetValue |-> st.resetValue,
                      resetTimestamp |-> st.resetTimestamp],
           ret |-> [ts |-> st.resetTimestamp, val |-> v - st.resetValue, ok |-> TRUE] ]

\* A getResetAdjusted call of w that found an entry has returned.
GraDone(w) == IsCall(w, "getResetAdjusted") /\ pre[w].found

\* C2: a getResetAdjusted(t, v) call that finds an entry which has not seen a
\* sample returns ok = false and leaves (t, v) as the entry's baseline; a call
\* that finds an entry which has seen a sample returns ok = true; and an entry
\* that has seen a sample never goes back to not having seen one.
C2_FirstSample ==
    /\ [](\A w \in Workers :
            GraDone(w) =>
                IF pre[w].hasReset
                THEN ret[w].ok
                ELSE /\ ret[w] = [ts |-> 0, val |-> 0, ok |-> FALSE]
                     /\ resetState(entries[call[w].key]) =
                            [ hasReset |-> TRUE, resetValue |-> call[w].b,
                              resetTimestamp |-> call[w].a ])
    /\ [][\A r \in DOMAIN entries :
            entries[r].hasReset => (r \in DOMAIN entries' /\ entries'[r].hasReset)]_vars

\* A first sample has been recorded and a later call on the entry has returned.
C2_Witness ==
    /\ GraDone("w1")
    /\ pre["w1"].hasReset
    /\ pre["w1"].resetValue = 5
    /\ pre["w1"].resetTimestamp = 100

\* The results the counter scenario expects of its three samples.
ResetScenarioResults ==
    << [ts |-> 0, val |-> 0, ok |-> FALSE],
       [ts |-> 100, val |-> 3, ok |-> TRUE],
       [ts |-> 119, val |-> 2, ok |-> TRUE] >>

\* C3: a getResetAdjusted(t, v) call on an entry that has seen a sample and
\* whose baseline value is above v sets the baseline value to 0 and the
\* baseline timestamp to t - 1 and returns (t - 1, v, true); and the samples
\* (100, 5), (110, 8), (120, 2), the first calls on a series, return
\* ok = false, then (100, 3, true), then (119, 2, true).
C3_Reset ==
    /\ \A w \in Workers :
          (GraDone(w) /\ pre[w].hasReset /\ call[w].b < pre[w].resetValue) =>
              /\ ret[w] = [ts |-> call[w].a - 1, val |-> call[w].b, ok |-> TRUE]
              /\ resetState(entries[call[w].key]) =
                     [ hasReset |-> TRUE, resetValue |-> 0,
                       resetTimestamp |-> call[w].a - 1 ]
    /\ rsScen.on =>
          \A i \in 1..Len(rsScen.res) : rsScen.res[i] = ResetScenarioResults[i]

\* The three samples of the scenario have been handed in, in order.
C3_Witness ==
    /\ rsScen.on
    /\ Len(rsScen.res) = Len(ResetScenario)
    /\ GraDone("w1")
    /\ call["w1"].b < pre["w1"].resetValue

\* C4: a getResetAdjusted(t, v) call on an entry that has seen a sample and
\* whose baseline value is at most v returns (baseline timestamp,
\* v - baseline value, true) and leaves the baseline as it found it.
C4_NoReset ==
    \A w \in Workers :
        (GraDone(w) /\ pre[w].hasReset /\ call[w].b >= pre[w].resetValue) =>
            /\ ret[w] = [ ts |-> pre[w].resetTimestamp,
                          val |-> call[w].b - pre[w].resetValue, ok |-> TRUE ]
            /\ resetState(entries[call[w].key]) =
                   [ hasReset |-> TRUE, resetValue |-> pre[w].resetValue,
                     resetTimestamp |-> pre[w].resetTimestamp ]

\* A call with v equal to the baseline value and one with v above it return.
C4_Witness ==
    /\ GraDone("w1")
    /\ pre["w1"].hasReset
    /\ call["w1"].b = pre["w1"].resetValue
    /\ call["w1"].b > 0

\* The calls of x and then of y, run one after the other from the reset state
\* x found, give the values both returned and the reset state the entry holds.
SerializedAs(x, y) ==
    LET first == SeqGetResetAdjusted(pre[x], call[x].a, call[x].b)
        second == SeqGetResetAdjusted(first.state, call[y].a, call[y].b)
    IN /\ ret[x] = first.ret
       /\ ret[y] = second.ret
       /\ resetState(entries[call[x].key]) = second.state

\* C5: two getResetAdjusted calls on the same ref that have both returned
\* have return values and leave a reset state that running them one after
\* the other, in one of the two orders, gives.
C5_Serializable ==
    (GraDone("w1") /\ GraDone("w2") /\ call["w1"].key = call["w2"].key) =>
        (SerializedAs("w1", "w2") \/ SerializedAs("w2", "w1"))

\* C6: two callers are inside updateSampleInterval for the same hash with the
\* same candidate, which the state before either ran would accept: when both
\* have returned, exactly one of them has returned true.
C6_OneWinner ==
    (pc["w1"] = "done" /\ pc["w2"] = "done" /\ race = "accept") =>
        (ret["w1"].ok # ret["w2"].ok)

\* Two racing calls with the same acceptable candidate have both returned.
C6_Witness ==
    /\ pc["w1"] = "done"
    /\ pc["w2"] = "done"
    /\ race = "accept"
    /\ Has(intervals, call["w1"].key)
    /\ intervals[call["w1"].key] = Candidate("w1")

\* The interval maps m and n agree on every hash but h.
SameExcept(m, n, h) ==
    /\ DOMAIN n \ {h} = DOMAIN m \ {h}
    /\ \A k \in DOMAIN m \ {h} : n[k] = m[k]

\* C7: updateSampleInterval on a hash without a recorded interval returns
\* true; a call that returns true records exactly the candidate for its hash
\* and changes no other hash's interval; a call that returns false leaves the
\* intervals map as it was; no step of a call changes the entries map.
C7_Frame ==
    [][\A w \in Workers :
          /\ updateSampleInterval(w) =>
                /\ ~Has(intervals, call[w].key) => ret'[w].ok
                /\ ret'[w].ok =>
                      /\ Has(intervals', call[w].key)
                      /\ intervals'[call[w].key] = Candidate(w)
                      /\ SameExcept(intervals, intervals', call[w].key)
                /\ ~ret'[w].ok => intervals' = intervals
          /\ (pc'[w] # pc[w] /\ "updateSampleInterval" \in {call[w].op, call'[w].op}) =>
                entries' = entries]_vars

\* With an entry cached and both hashes recorded, a call has been accepted.
C7_Witness ==
    /\ IsCall("w1", "updateSampleInterval")
    /\ ret["w1"].ok
    /\ DOMAIN intervals = Hashes
    /\ entries # EmptyMap

\* The results the interval scenario expects of its four calls.
IntervalScenarioResults == <<TRUE, TRUE, FALSE, TRUE>>

\* C8: the calls (0,10), (0,20), (5,15), (20,30), the first calls on a hash,
\* return true, true, false, true, and the hash's interval is then (20,30).
C8_Scenario ==
    ivScen.on =>
        /\ \A i \in 1..Len(ivScen.res) : ivScen.res[i] = IntervalScenarioResults[i]
        /\ Len(ivScen.res) = Len(IntervalScenario) =>
               /\ Has(intervals, ScenarioHash)
               /\ intervals[ScenarioHash] = sampleInterval(20, 30)

\* The four calls of the scenario have been made, in order.
C8_Witness ==
    /\ ivScen.on
    /\ Len(ivScen.res) = Len(IntervalScenario)

\* C9: a get for a ref that is not cached and for which getLabelsByRef yields
\* no labels returns (nil, false, "series reference invalid") and leaves the
\* entries map and the intervals map as they were.
C9_InvalidRef ==
    [][\A r \in Refs, tg \in Targets, x \in ExternalLabels, d \in RefreshDelays :
          (~Has(entries, r) /\ get(r, tg, NilLabels, x, d)) =>
              /\ getRet' = [ entry |-> NilEntry, valid |-> FALSE,
                             err |-> "series reference invalid" ]
              /\ entries' = entries
              /\ intervals' = intervals]_vars

\* A get has failed on an invalid ref with an entry and an interval in the cache.
C9_Witness ==
    /\ getRet.err = "series reference invalid"
    /\ entries # EmptyMap
    /\ intervals # EmptyMap

\* The metadata populate finds for a series, as [md, suffix, ok].
LookedUp(lset, target) ==
    LET name == LabelsGet(lset, "__name__")
        split == splitComplexMetricSuffix(name)
    IN IF getMetadata(target, name).ok
       THEN [md |-> getMetadata(target, name).md, suffix |-> metricSuffixNone, ok |-> TRUE]
       ELSE IF split.ok /\ getMetadata(target, split.prefix).ok
       THEN [md |-> getMetadata(target, split.prefix).md, suffix |-> split.suffix, ok |-> TRUE]
       ELSE [md |-> NoMetadata, suffix |-> metricSuffixNone, ok |-> FALSE]

MissingIdentity(lset) == ~LabelsHas(lset, keyJob) \/ ~LabelsHas(lset, keyInstance)
TooManyLabels(lset, externalLabels) ==
    Cardinality((DOMAIN lset \cup {n \in DOMAIN externalLabels : externalLabels[n] # ""})
                    \ (ResourceKeys \cup {"__name__"})) > maxLabelCount
Skipped(lset, target, externalLabels) ==
    \/ MissingIdentity(lset)
    \/ TooManyLabels(lset, externalLabels)
    \/ ~LookedUp(lset, target).ok

\* The series reaches the conversion switch with a type, or a summary suffix,
\* that the switch has no case for.
Unconvertible(lset, target, externalLabels) ==
    /\ ~Skipped(lset, target, externalLabels)
    /\ LET found == LookedUp(lset, target)
       IN \/ found.md.Type \notin {"counter", "gauge", "unknown", "summary", "histogram"}
          \/ /\ found.md.Type = "summary"
             /\ found.suffix \notin {metricSuffixSum, metricSuffixCount, metricSuffixNone}

\* How populate would leave each series of the catalogue, under each target
\* and each set of external labels.
Classes ==
    [ lset \in SeriesLabels, tg \in Targets, x \in ExternalLabels |->
        [ skipped |-> Skipped(lset, tg, x), unconvertible |-> Unconvertible(lset, tg, x) ] ]

\* C10: get returns an error if and only if the ref is not cached and
\* getLabelsByRef yields no labels, or populate runs and reaches the
\* conversion switch with a type, or a summary suffix, it has no case for; a
\* series without identity labels, with too many labels or without metadata
\* yields no error; and an error comes with a nil entry and valid = false.
C10_ErrorIff ==
    [][\A r \in Refs, l \in LabelsByRef, tg \in Targets, x \in ExternalLabels :
          LET miss == ~Has(entries, r)
              invalid == miss /\ l.nil
              class == Classes[IF miss THEN l.lset ELSE entries[r].lset, tg, x]
              refresh == miss \/ now > entries[r].nextRefresh
              asClaimed ==
                  IF invalid THEN getRet'.err # ""
                  ELSE /\ (getRet'.err # "") <=> (refresh /\ class.unconvertible)
                       /\ class.skipped => getRet'.err = ""
          IN /\ getRet'.err # "" => (getRet'.entry = NilEntry /\ ~getRet'.valid)
             /\ ~asClaimed => \A d \in RefreshDelays : ~get(r, tg, l, x, d)]_vars

\* A get has failed in the conversion switch.
C10_Witness ==
    /\ getRet.err = "unexpected metric name suffix"
    /\ getRet.entry = NilEntry

\* The label set get works on: the cached entry's, or on a miss the one
\* getLabelsByRef yields.
SeriesOf(r, l) == IF Has(entries, r) THEN entries[r].lset ELSE l

\* What get returns for a series it drops: the entry, valid = false, no error.
Dropped(r) == [entry |-> r, valid |-> FALSE, err |-> ""]

\* The labels of a series other than __name__ and the resource labels.
OwnMetricLabels(lset) == DOMAIN lset \ (ResourceKeys \cup {"__name__"})

\* C11 as amended: for every series with more than maxLabelCount labels other
\* than __name__ and the resource labels location, cluster, namespace, job
\* and instance, get returns valid = false with a nil error.
C11_LabelCapAmended ==
    [][\A r \in Refs, l \in ConvertSeries, tg \in ConvertTargets,
          x \in ConvertExternalLabels :
          ( /\ Cardinality(OwnMetricLabels(SeriesOf(r, l))) > maxLabelCount
            /\ get(r, tg, SomeLabels(l), x, refreshInterval) )
              => getRet' = Dropped(r)]_vars

\* C11 as stated: for every series whose label set has more than
\* maxLabelCount labels, get returns valid = false with a nil error.
C11_LabelCapStated ==
    [][\A r \in Refs, l \in ConvertSeries, tg \in ConvertTargets,
          x \in ConvertExternalLabels :
          ( /\ Cardinality(DOMAIN SeriesOf(r, l)) > maxLabelCount
            /\ get(r, tg, SomeLabels(l), x, refreshInterval) )
              => getRet' = Dropped(r)]_vars

\* A get has dropped the series with three metric labels and set its deadline.
C11_Witness ==
    /\ Has(entries, ScenarioRef)
    /\ entries[ScenarioRef].lset = ManyLabelSeries
    /\ entries[ScenarioRef].nextRefresh > 0
    /\ getRet = Dropped(ScenarioRef)

\* What extractResource returns for a series it cannot place.
NoResource ==
    [resource |-> [Type |-> "", Labels |-> EmptyLabels], labels |-> EmptyLabels, ok |-> FALSE]

\* C12: for every label set without job or without instance, extractResource
\* returns ok = false, no resource and no metric labels, also when the
\* external labels hold job and instance; get for such a series returns
\* valid = false with a nil error.
C12_MissingIdentity ==
    [][/\ \A l \in ConvertSeries, x \in ConvertExternalLabels :
             ("job" \notin DOMAIN l \/ "instance" \notin DOMAIN l) =>
                 extractResource(l, x) = NoResource
       /\ \A r \in Refs, l \in ConvertSeries, tg \in ConvertTargets,
             x \in ConvertExternalLabels :
             ( /\ {"job", "instance"} \ DOMAIN SeriesOf(r, l) # {}
               /\ get(r, tg, SomeLabels(l), x, refreshInterval) )
                 => getRet' = Dropped(r)]_vars

\* A get has dropped the series without a job label and set its deadline.
C12_Witness ==
    /\ Has(entries, ScenarioRef)
    /\ entries[ScenarioRef].lset = NoJobSeries
    /\ entries[ScenarioRef].nextRefresh > 0
    /\ getRet = Dropped(ScenarioRef)
    /\ "job" \in DOMAIN CollidingExternalLabels

\* C13: a get for a cached ref whose refresh deadline has not passed (no
\* invalidateAll since the get that set it) does not run populate: whatever
\* the target, the labels by ref, the external labels and the random source
\* would yield, it returns the cached entry with its validity and leaves the
\* entry's descriptor, hash, suffix and deadline, and every other entry, as
\* they were.
C13_NoRepopulation ==
    [][\A r \in Refs, l \in LabelsByRef, tg \in Targets, x \in ExternalLabels,
          d \in RefreshDelays :
          ( /\ Has(entries, r)
            /\ now <= entries[r].nextRefresh
            /\ get(r, tg, l, x, d) )
              => /\ entries' = entries
                 /\ getRet' = [entry |-> r, valid |-> ~entries[r].proto.nil, err |-> ""]]_vars

\* At second 601 ref 2 was populated and then ref 1, whose deadline of 601
\* had not passed, was served from the cache.
C13_Witness ==
    /\ now = 601
    /\ Has(entries, 1) /\ Has(entries, 2)
    /\ entries[1].nextRefresh = now
    /\ entries[2].nextRefresh > now + refreshInterval \div 2
    /\ getRet = [entry |-> 1, valid |-> TRUE, err |-> ""]

\* How populate would leave each series of the conversion catalogue.
ConvertClasses ==
    [ lset \in ConvertSeries, tg \in ConvertTargets, x \in ConvertExternalLabels |->
        [ skipped |-> Skipped(lset, tg, x),
          unconvertible |-> Unconvertible(lset, tg, x),
          found |-> LookedUp(lset, tg) ] ]

\* The step shows populate having run on entry r of series lset under target
\* tg and external labels x: an error, or the entry left as it was for a
\* series populate drops, or the metadata and suffix tg gives.
Repopulated(r, lset, tg, x) ==
    LET class == ConvertClasses[lset, tg, x]
    IN IF class.unconvertible
       THEN /\ getRet'.err # ""
            /\ Has(entries, r) => entries'[r] = entries[r]
       ELSE IF class.skipped
       THEN /\ getRet'.err = ""
            /\ entries'[r].proto = IF Has(entries, r) THEN entries[r].proto ELSE NilProto
       ELSE /\ getRet' = [entry |-> r, valid |-> TRUE, err |-> ""]
            /\ ~entries'[r].proto.nil
            /\ entries'[r].metadata = class.found.md
            /\ entries'[r].suffix = class.found.suffix

\* The entry of r is new or has been invalidated.
Due(r) == ~Has(entries, r) \/ entries[r].nextRefresh = 0

\* C14 as amended: invalidateAll leaves every cached entry due; a get on a
\* ref whose entry is due after invalidateAll, or is created by this get,
\* runs populate whatever the entry's earlier deadline was, and unless
\* populate returns an error it then sets a new deadline; after an error
\* the entry has no deadline and stays due.
C14_InvalidateAmended ==
    [][/\ invalidateAll => \A r \in DOMAIN entries : Has(entries', r) /\ entries'[r].nextRefresh = 0
       /\ \A r \in Refs, l \in ConvertSeries, tg \in ConvertTargets,
             x \in ConvertExternalLabels :
             (Due(r) /\ get(r, tg, SomeLabels(l), x, refreshInterval)) =>
                 /\ Repopulated(r, SeriesOf(r, l), tg, x)
                 /\ entries'[r].nextRefresh =
                        IF getRet'.err = "" THEN now + refreshInterval ELSE 0]_vars

\* C14 as stated: invalidateAll leaves every cached entry due; a get on a
\* ref whose entry is due after invalidateAll, or is created by this get,
\* runs populate whatever the entry's earlier deadline was and then sets a
\* new deadline.
C14_InvalidateStated ==
    [][/\ invalidateAll => \A r \in DOMAIN entries : Has(entries', r) /\ entries'[r].nextRefresh = 0
       /\ \A r \in Refs, l \in ConvertSeries, tg \in ConvertTargets,
             x \in ConvertExternalLabels :
             (Due(r) /\ get(r, tg, SomeLabels(l), x, refreshInterval)) =>
                 /\ Repopulated(r, SeriesOf(r, l), tg, x)
                 /\ entries'[r].nextRefresh = now + refreshInterval]_vars

\* A converted entry was invalidated and the next get ran populate on it,
\* under a target whose metadata has since changed to a type it cannot
\* convert.
C14_Witness ==
    /\ Has(entries, ScenarioRef)
    /\ ~entries[ScenarioRef].proto.nil
    /\ entries[ScenarioRef].nextRefresh = 0
    /\ getRet.err # ""

\* C15: a garbageCollect sweep removes or invalidates the cache entries
\* whose series the latest checkpoint no longer holds: when the sweep has
\* returned, no such ref has an entry that get would serve from the cache.
C15_SweepPrunes ==
    [][(loop.pc = "collect" /\ loop'.pc = "select") =>
          \A r \in loop'.absent :
              Has(entries', r) => entries'[r].nextRefresh = 0]_vars

\* run has received as many ticks as it has made garbageCollect calls.
EveryTickCollects ==
    loop.ticks = loop.sweeps + (IF loop.pc = "collect" THEN 1 ELSE 0)

\* The tick case ends back at the select, with the error logged if there is
\* one; run, once returned, stays returned and makes no garbageCollect call.
LoopKeepsRunning ==
    /\ (loop.pc = "collect" /\ loop'.pc # "collect") =>
          /\ loop'.pc = "select"
          /\ loop'.logged = loop.logged + (IF garbageCollectErr # "" THEN 1 ELSE 0)
    /\ loop.pc = "returned" =>
          /\ loop'.pc = "returned"
          /\ loop'.sweeps = loop.sweeps

\* C16 as amended: run calls garbageCollect for every tick it receives and
\* returns only when ctx is cancelled; after a garbageCollect call, with its
\* error logged if it returned one, run is back at the select; once ctx is
\* cancelled run eventually returns, and after it has returned no
\* garbageCollect starts. (A tick that is ready at the select together with
\* the cancellation may still be taken first.)
C16_RunAmended ==
    /\ [](EveryTickCollects /\ (loop.pc = "returned" => loop.cancelled))
    /\ [][LoopKeepsRunning]_vars
    /\ ((loop.cancelled /\ loop.pc # "idle") ~> (loop.pc = "returned"))

\* C16 as stated: run calls garbageCollect for every tick it receives and
\* returns only when ctx is cancelled; after a garbageCollect call, with its
\* error logged if it returned one, run is back at the select; once ctx is
\* cancelled run eventually returns and enters no further tick case.
C16_RunStated ==
    /\ [](EveryTickCollects /\ (loop.pc = "returned" => loop.cancelled))
    /\ [][LoopKeepsRunning]_vars
    /\ ((loop.cancelled /\ loop.pc # "idle") ~> (loop.pc = "returned"))
    /\ [](~loop.late)

\* run has returned after two sweeps, the second one for a tick it took with
\* ctx already cancelled.
C16_Witness ==
    /\ loop.pc = "returned"
    /\ loop.sweeps = 2
    /\ loop.late

\* The descriptor of a cached entry has the given kind and value type.
Converted(e, kind, value) == e.proto.MetricKind = kind /\ e.proto.ValueType = value

\* C17: every valid entry has the metric kind and value type of its metadata
\* type: a counter is CUMULATIVE/DOUBLE, a gauge and an unknown are
\* GAUGE/DOUBLE, a histogram is CUMULATIVE/DISTRIBUTION, a summary is
\* CUMULATIVE/DOUBLE for its sum, CUMULATIVE/INT64 for its count and
\* GAUGE/DOUBLE for its quantiles (no suffix).
C17_KindAndValueType ==
    \A r \in DOMAIN entries :
        valid(entries[r]) =>
            LET e == entries[r]
                type == e.metadata.Type
            IN /\ type \in {"counter", "gauge", "unknown", "histogram", "summary"}
               /\ type = "counter" => Converted(e, "CUMULATIVE", "DOUBLE")
               /\ type \in {"gauge", "unknown"} => Converted(e, "GAUGE", "DOUBLE")
               /\ type = "histogram" => Converted(e, "CUMULATIVE", "DISTRIBUTION")
               /\ type = "summary" =>
                     /\ e.suffix \in {metricSuffixSum, metricSuffixCount, metricSuffixNone}
                     /\ e.suffix = metricSuffixSum => Converted(e, "CUMULATIVE", "DOUBLE")
                     /\ e.suffix = metricSuffixCount => Converted(e, "CUMULATIVE", "INT64")
                     /\ e.suffix = metricSuffixNone => Converted(e, "GAUGE", "DOUBLE")

\* The count of a summary is cached as a valid CUMULATIVE/INT64 series.
C17_Witness ==
    /\ Has(entries, ScenarioRef)
    /\ valid(entries[ScenarioRef])
    /\ entries[ScenarioRef].lset = LatCountSeries
    /\ entries[ScenarioRef].metadata.Type = "summary"
    /\ entries[ScenarioRef].suffix = metricSuffixCount
    /\ Converted(entries[ScenarioRef], "CUMULATIVE", "INT64")

\* C18: a well-known internal scrape metric is converted with its synthetic
\* metadata, whatever metadata the target holds under that name: a valid entry
\* for an internal metric name carries the metadata of internalMetrics.
C18_InternalMetadataFirst ==
    \A r \in DOMAIN entries :
        LET metricName == LabelsGet(entries[r].lset, "__name__")
        IN (valid(entries[r]) /\ metricName \in InternalMetricNames) =>
               entries[r].metadata = internalMetrics[metricName]

\* C19: the metric type of every valid entry is the configured prefix and
\* the metric name: for a histogram series the name without its well-known
\* suffix, which is never empty, and for every other type the full name.
C19_MetricTypeFromName ==
    \A r \in DOMAIN entries :
        valid(entries[r]) =>
            LET metricName == LabelsGet(entries[r].lset, "__name__")
                baseMetricName == splitComplexMetricSuffix(metricName).prefix
            IN IF entries[r].metadata.Type = "histogram"
               THEN /\ baseMetricName # ""
                    /\ entries[r].proto.Metric.Type = getMetricType(baseMetricName)
               ELSE entries[r].proto.Metric.Type = getMetricType(metricName)

\* The labels of the descriptor that are neither the series' own labels nor
\* empty: the ones an external label filled in.
FromExternal(e) ==
    [ resource |-> { k \in ResourceKeys :
                       ~LabelsHas(e.lset, k) /\ e.proto.Resource.Labels[k] # "" },
      metric |-> DOMAIN e.proto.Metric.Labels \ DOMAIN e.lset ]

\* C20: an external label is merged into a series only under a name the
\* series' own label set does not have; where the names collide the series'
\* own value is used, in the monitored resource labels and in the metric
\* labels alike.
C20_OwnLabelWins ==
    \A r \in DOMAIN entries :
        valid(entries[r]) =>
            LET e == entries[r]
                res == e.proto.Resource.Labels
                met == e.proto.Metric.Labels
            IN /\ \A k \in ResourceKeys : LabelsHas(e.lset, k) => res[k] = e.lset[k]
               /\ \A n \in DOMAIN met : LabelsHas(e.lset, n) => met[n] = e.lset[n]
               /\ \E x \in ConvertExternalLabels :
                     /\ \A k \in FromExternal(e).resource : res[k] = LabelsGet(x, k)
                     /\ \A n \in FromExternal(e).metric : met[n] = LabelsGet(x, n)
                     /\ \A n \in DOMAIN x \ DOMAIN e.lset :
                           IF n \in ResourceKeys THEN res[n] = x[n]
                           ELSE LabelsHas(met, n) /\ met[n] = x[n]

\* A series with its own location and x is cached from a conversion whose
\* external labels collide on both and add the cluster.
C20_Witness ==
    /\ Has(entries, ScenarioRef)
    /\ valid(entries[ScenarioRef])
    /\ entries[ScenarioRef].lset = OwnLocationSeries
    /\ entries[ScenarioRef].proto.Resource.Labels[keyLocation] = "eu"
    /\ entries[ScenarioRef].proto.Resource.Labels[keyCluster] = "c"
    /\ entries[ScenarioRef].proto.Resource.Labels[keyJob] = "a"
    /\ entries[ScenarioRef].proto.Metric.Labels = ("x" :> "1")

\* Some worker's getResetAdjusted call on ref r takes a step.
GraSteps(r) ==
    \E w \in Workers :
        call[w].op = "getResetAdjusted" /\ call[w].key = r /\ pc'[w] # pc[w]

\* C21: only a step of getResetAdjusted changes an entry's counter reset
\* state: a refresh by get and invalidateAll leave it as it is and no entry is
\* removed, a new entry starts with the empty reset state, and a sample is
\* treated as a first sample only if no sample of the series returned before.
C21_ResetStateKept ==
    [][/\ \A r \in DOMAIN entries :
             /\ r \in DOMAIN entries'
             /\ resetState(entries'[r]) # resetState(entries[r]) => GraSteps(r)
       /\ \A r \in DOMAIN entries' \ DOMAIN entries :
             resetState(entries'[r]) =
                 [hasReset |-> FALSE, resetValue |-> 0, resetTimestamp |-> 0]
       /\ \A w \in Workers :
             (graInitValue(w) /\ hist.on /\ call[w].key = ScenarioRef) => hist.last.none]_vars

\* A sample handed in after a refresh of its entry, which held a baseline,
\* has returned ok = true.
C21_Witness ==
    /\ GraDone("w1")
    /\ ret["w1"].ok
    /\ hist.last.ok
    /\ hist.last.afterRefresh

\* The refs whose cached entries are valid and hold the descriptor of ref r.
SameDescriptor(r) ==
    { q \in DOMAIN entries : valid(entries[q]) /\ entries[q].proto = entries[r].proto }

\* C22: the hash of an entry is determined by its descriptor alone: two refs
\* whose entries hold equal descriptors hold equal hashes, whatever their refs
\* and label sets are, and so share one interval record: a candidate submitted
\* under the hash of one of them that equals the interval recorded under the
\* hash of the other is rejected and leaves the record as it is.
C22_HashOfDescriptor ==
    /\ [](\A r \in DOMAIN entries :
             valid(entries[r]) => \A q \in SameDescriptor(r) : entries[q].hash = entries[r].hash)
    /\ [][\A w \in Workers, r \in DOMAIN entries :
             ( /\ updateSampleInterval(w)
               /\ valid(entries[r])
               /\ call[w].key = entries[r].hash
               /\ \E q \in SameDescriptor(r) :
                     /\ Has(intervals, entries[q].hash)
                     /\ intervals[entries[q].hash] = Candidate(w) )
             => (~ret'[w].ok /\ intervals' = intervals)]_vars

\* Two refs with different label sets, created at different times, hold one
\* descriptor, and a candidate equal to their recorded interval is rejected.
C22_Witness ==
    /\ DOMAIN entries = Refs
    /\ valid(entries[1])
    /\ 2 \in SameDescriptor(1)
    /\ entries[1].lset # entries[2].lset
    /\ entries[1].nextRefresh # entries[2].nextRefresh
    /\ IsCall("w1", "updateSampleInterval")
    /\ call["w1"].key = entries[2].hash
    /\ ~ret["w1"].ok
    /\ Has(intervals, entries[1].hash)
    /\ intervals[entries[1].hash] = Candidate("w1")

\* The refresh deadline of ref r in the entries map m: 0 without an entry.
Deadline(m, r) == IF Has(m, r) THEN m[r].nextRefresh ELSE 0

\* C23: every refresh deadline that get sets lies between
\* now + refreshInterval - refreshJitter/2 and
\* now + refreshInterval + refreshJitter/2, 300 to 900 seconds after the
\* populate, and the entry is not due for a refresh right after.
C23_DeadlineWindow ==
    [][\A r \in DOMAIN entries' :
          (Deadline(entries', r) # Deadline(entries, r) /\ Deadline(entries', r) # 0) =>
              /\ Deadline(entries', r) >= now + refreshInterval - refreshJitter \div 2
              /\ Deadline(entries', r) <= now + refreshInterval + refreshJitter \div 2
              /\ Deadline(entries', r) >= now + 300
              /\ Deadline(entries', r) <= now + 900
              /\ ~(now' > Deadline(entries', r))]_vars

\* One entry was given the earliest deadline of the window when the cache
\* was new and is due now; another has been given the latest one after the
\* clock advanced.
C23_Witness ==
    /\ now > 1
    /\ \E r \in DOMAIN entries :
          entries[r].nextRefresh = 1 + refreshInterval - refreshJitter \div 2
    /\ \E r \in DOMAIN entries :
          entries[r].nextRefresh = now + refreshInterval + refreshJitter \div 2

\* w's getResetAdjusted call on ScenarioRef returns in this step, recorded.
SampleReturns(w) ==
    /\ hist.on
    /\ call[w].key = ScenarioRef
    /\ graReturn(w) \/ graInitValue(w)

\* C24: a sample on ScenarioRef whose value is below the value of the sample
\* before it is treated as a reset: it returns (t - 1, v, true) and leaves
\* t - 1 as the reset timestamp; and of two consecutive results with ok = true
\* and one reset timestamp the later has no smaller adjusted value.
C24_DecreaseIsReset ==
    [][\A w \in Workers :
          (SampleReturns(w) /\ ~hist.last.none) =>
              /\ call[w].b < hist.last.v =>
                    /\ ret'[w] = [ts |-> call[w].a - 1, val |-> call[w].b, ok |-> TRUE]
                    /\ entries'[ScenarioRef].resetTimestamp = call[w].a - 1
              /\ (hist.last.ok /\ ret'[w].ok /\ ret'[w].ts = hist.last.ts) =>
                    ret'[w].val >= hist.last.val]_vars

\* C25: a get that refreshes a cached entry and finds its series one that
\* populate drops (no identity labels, too many labels, no metadata) returns
\* the entry with valid = false and no error, whether or not an earlier
\* populate had built a descriptor for it.
C25_ValidIsLatest ==
    [][\A r \in Refs, l \in ConvertSeries, tg \in ConvertTargets, x \in ConvertExternalLabels :
          ( /\ Has(entries, r)
            /\ shouldRefresh(entries[r])
            /\ ConvertClasses[entries[r].lset, tg, x].skipped
            /\ get(r, tg, SomeLabels(l), x, refreshInterval) )
          => /\ getRet' = [entry |-> r, valid |-> FALSE, err |-> ""]
             /\ ~valid(entries'[r])]_vars

\* The errors populate returns.
PopulateErrors == {"unexpected metric type", "unexpected metric name suffix"}

\* The step is a get of the lifecycle specification: no worker moves, the
\* clock stands and the step is not invalidateAll.
LifecycleGet == pc' = pc /\ now' = now /\ ~invalidateAll

\* C26: a get on ScenarioRef that fails with an error of populate leaves the
\* entry in the entries map with the deadline it had, 0 for an entry this get
\* created, and due for a refresh; as long as no get on the ref has succeeded
\* the entry stays cached, invalid and due; and a getResetAdjusted call that
\* looks the ref up after such a failure finds an entry.
C26_FailedPopulate ==
    /\ [][(LifecycleGet /\ getRet'.err \in PopulateErrors) =>
             /\ Has(entries', ScenarioRef)
             /\ Deadline(entries', ScenarioRef) = Deadline(entries, ScenarioRef)
             /\ shouldRefresh(entries'[ScenarioRef])]_vars
    /\ []((hist.failed /\ ~hist.succeeded) =>
             /\ Has(entries, ScenarioRef)
             /\ ~valid(entries[ScenarioRef])
             /\ entries[ScenarioRef].nextRefresh = 0
             /\ shouldRefresh(entries[ScenarioRef]))
    /\ [][\A w \in Workers :
             (graLookup(w) /\ call[w].key = ScenarioRef /\ hist.failed) =>
                 (pre'[w].found /\ pc'[w] = "gra_read")]_vars

\* Every get on the ref has failed in populate, and a getResetAdjusted call
\* on it has found the entry and recorded a baseline in it.
C26_Witness ==
    /\ hist.failed
    /\ ~hist.succeeded
    /\ GraDone("w1")
    /\ call["w1"].key = ScenarioRef
    /\ entries[ScenarioRef].hasReset
    /\ getRet.err \in PopulateErrors

\* C27: when every candidate has start <= end, the interval recorded for a
\* hash never has its start or its end decreased, and a candidate accepted on
\* a hash with a recorded interval (s0, e0) either has start = s0 and an end
\* above e0, or starts at or after e0: apart from such an extension it does
\* not reach back into the recorded interval or any before it.
C27_Monotonic ==
    /\ [](\A h \in DOMAIN intervals : intervals[h].start <= intervals[h].end)
    /\ [][\A h \in DOMAIN intervals :
             /\ Has(intervals', h)
             /\ intervals'[h].start >= intervals[h].start
             /\ intervals'[h].end >= intervals[h].end]_vars
    /\ [][\A w \in Workers :
             (updateSampleInterval(w) /\ Has(intervals, call[w].key) /\ ret'[w].ok) =>
                 LET s0 == intervals[call[w].key].start
                     e0 == intervals[call[w].key].end
                 IN /\ intervals'[call[w].key] = Candidate(w)
                    /\ \/ call[w].a = s0 /\ call[w].b > e0
                       \/ call[w].a >= e0]_vars

\* An interval was extended, and a later one that starts at its end has been
\* accepted after it.
C27_Witness ==
    /\ ivScen.on
    /\ Len(ivScen.res) >= 2
    /\ IsCall("w1", "updateSampleInterval")
    /\ call["w1"].key = ScenarioHash
    /\ Candidate("w1") = sampleInterval(20, 30)
    /\ ret["w1"].ok
    /\ intervals[ScenarioHash] = sampleInterval(20, 30)

\* C28: a candidate equal to the interval recorded for its hash is rejected
\* and the record stays as it is, also when the interval has start = end.
C28_DuplicateRejected ==
    [][\A w \in Workers :
          ( /\ updateSampleInterval(w)
            /\ Has(intervals, call[w].key)
            /\ intervals[call[w].key] = Candidate(w) )
          => (~ret'[w].ok /\ intervals' = intervals)]_vars

\* A zero-length candidate equal to the recorded interval has been rejected.
C28_Witness ==
    /\ IsCall("w1", "updateSampleInterval")
    /\ call["w1"].a = call["w1"].b
    /\ call["w1"].a > 0
    /\ Has(intervals, call["w1"].key)
    /\ intervals[call["w1"].key] = Candidate("w1")
    /\ ~ret["w1"].ok

\* C29: of the samples of ScenarioRef, handed in one after the other with
\* strictly increasing timestamps, every one that returns ok = true returns a
\* reset timestamp below its own timestamp t, and no smaller than the reset
\* timestamp the sample before it returned with ok = true.
C29_WindowPositive ==
    [][\A w \in Workers :
          (SampleReturns(w) /\ hist'.increasing /\ ret'[w].ok) =>
              /\ ret'[w].ts < call[w].a
              /\ hist.last.ok => ret'[w].ts >= hist.last.ts]_vars

\* The three samples of the counter scenario, with increasing timestamps,
\* have returned: the second with reset timestamp 100, the third with 119.
C29_Witness ==
    /\ hist.increasing
    /\ rsScen.on
    /\ Len(rsScen.res) = Len(ResetScenario)
    /\ GraDone("w1")
    /\ hist.last.ok
    /\ hist.last.t = 120
    /\ hist.last.ts = 119
    /\ rsScen.res[2].ts = 100

\* Entry f is entry e but for its refresh deadline.
SameButDeadline(e, f) ==
    /\ f.lset = e.lset
    /\ f.proto = e.proto
    /\ f.metadata = e.metadata
    /\ f.suffix = e.suffix
    /\ f.hash = e.hash
    /\ resetState(f) = resetState(e)

\* C30: invalidateAll removes no entry and adds none, leaves the label set,
\* the descriptor, the hash and the counter reset state of every entry and
\* the intervals map as they are, and sets every refresh deadline to 0; a
\* candidate equal to the interval recorded for its hash, or starting inside
\* it, is rejected whether or not the entries have been invalidated.
C30_InvalidateFrame ==
    /\ [][invalidateAll =>
             /\ DOMAIN entries' = DOMAIN entries
             /\ \A r \in DOMAIN entries :
                   SameButDeadline(entries[r], entries'[r]) /\ entries'[r].nextRefresh = 0
             /\ intervals' = intervals]_vars
    /\ [][\A w \in Workers :
             ( /\ updateSampleInterval(w)
               /\ Has(intervals, call[w].key)
               /\ \/ intervals[call[w].key] = Candidate(w)
                  /\ /\ call[w].a > intervals[call[w].key].start
                     /\ call[w].a < intervals[call[w].key].end )
             => ~ret'[w].ok]_vars

\* The entry holds a descriptor and a baseline and is invalidated, and a
\* duplicate of the recorded interval has been rejected.
C30_Witness ==
    /\ Has(entries, ScenarioRef)
    /\ valid(entries[ScenarioRef])
    /\ entries[ScenarioRef].hasReset
    /\ entries[ScenarioRef].nextRefresh = 0
    /\ hist.succeeded
    /\ IsCall("w1", "updateSampleInterval")
    /\ Has(intervals, ScenarioHash)
    /\ intervals[ScenarioHash] = sampleInterval(5, 10)
    /\ Candidate("w1") = sampleInterval(5, 10)
    /\ ~ret["w1"].ok

\* C31: the label set of an entry is the one it was created with: no step
\* removes an entry or changes its label set, and a get on a ref that has an
\* entry does what it would do were getLabelsByRef to answer with no labels,
\* whatever the callback would answer, and does not fail on the ref.
C31_LabelSetFixed ==
    [][/\ \A r \in DOMAIN entries :
             Has(entries', r) /\ entries'[r].lset = entries[r].lset
       /\ \A r \in DOMAIN entries, l \in RelabelLabels, d \in RefreshDelays :
             get(r, SummaryTarget, l, NoExternalLabels, d) =>
                 /\ get(r, SummaryTarget, NilLabels, NoExternalLabels, d)
                 /\ getRet'.err # "series reference invalid"]_vars

\* Both refs hold the different label sets they were created with, and the
\* entry of ScenarioRef has been through a refresh and is valid.
C31_Witness ==
    /\ DOMAIN entries = Refs
    /\ entries[ScenarioRef].lset = CounterSeries
    /\ entries[2].lset = TempSeries
    /\ hist.refreshed
    /\ valid(entries[ScenarioRef])
    /\ entries[ScenarioRef].nextRefresh > now

\* The label set lset with the external labels x merged in under the names it
\* does not have.
Merged(lset, x) ==
    [n \in DOMAIN lset \cup DOMAIN x |-> IF n \in DOMAIN lset THEN lset[n] ELSE x[n]]

\* The labels populate takes out of the ones extractResource returned.
TakenOut(e) == {"__name__"} \cup (IF e.metadata.Type = "histogram" THEN {"le"} ELSE {})

C33_ReloadOutcome ==
    /\ [](\A t \in Triggers :
            frames[t].pc = "returned" =>
                /\ ~frames[t].loaded => frames[t].invoked = <<>>
                /\ frames[t].loaded => frames[t].invoked = Reloaders
                /\ frames[t].ret = "err" <=>
                      (~frames[t].loaded
                         \/ \E i \in DOMAIN frames[t].outcomes : ~frames[t].outcomes[i])
                /\ frames[t].ret \in {"nil", "err"}
                /\ configMetrics.lastReloadSuccess <=> frames[t].ret = "nil")
    /\ [][configMetrics'.lastReloadSuccessTime # configMetrics.lastReloadSuccessTime =>
            \E t \in Triggers : /\ frames[t].pc # "returned"
                                /\ frames'[t].pc = "returned"
                                /\ frames'[t].ret = "nil"]_vars

\* A reload for SIGHUP two seconds after the initial load: the first reloader
\* failed, the three after it were invoked all the same, the call returned an
\* error, and the time of the last success is still that of the initial load.
C33_Witness ==
    /\ frames["hup"].pc = "returned"
    /\ frames["hup"].loaded
    /\ frames["hup"].outcomes = <<FALSE, TRUE, TRUE, TRUE>>
    /\ frames["hup"].invoked = Reloaders
    /\ frames["hup"].ret = "err"
    /\ ~configMetrics.lastReloadSuccess
    /\ configMetrics.lastReloadSuccessTime = 1
    /\ now = 3

\* The reloadConfig calls that have been entered and have not returned.
Reloading == { t \in Triggers : frames[t].pc \in {"load", "reloaders"} }

\* Whether the reloadConfig call for trigger t loaded the file and had every
\* reloader return nil.
Succeeded(t) ==
    /\ frames[t].loaded
    /\ Len(frames[t].outcomes) = Len(Reloaders)
    /\ \A i \in DOMAIN frames[t].outcomes : frames[t].outcomes[i]

\* C34: a request the reload handler received on reloadCh is eventually
\* replied to, and never more than once; the reply is nil (the request is not
\* answered 500) exactly if its reload loaded the file and every reloader
\* returned nil; at most one reloadConfig call runs at a time, whether for
\* SIGHUP or for a request; and after the interrupt function has returned no
\* reloadConfig call is entered.
C34_ReloadHandler ==
    /\ [](\A c \in Requests : http[c].replies <= 1)
    /\ \A c \in Requests :
          (http[c].pc = "recv") ~> (http[c].pc = "done" /\ http[c].replies = 1)
    /\ [][\A c \in Requests :
            http'[c].replies # http[c].replies =>
                /\ http[c].pc = "recv"
                /\ http'[c].status = 200 <=> Succeeded(c)
                /\ http'[c].status = 500 <=> ~Succeeded(c)]_vars
    /\ [](Cardinality(Reloading) <= 1)
    /\ [][interrupt = "returned" =>
            \A t \in Triggers : frames'[t].pc = "load" => frames[t].pc = "load"]_vars

\* The interrupt function has returned and the handler with it: the request
\* r1, received before, was answered 500 after its one reply, r2 is left
\* blocked in its send and a buffered SIGHUP is left unserved, with no
\* reloadConfig call running.
C34_Witness ==
    /\ interrupt = "returned"
    /\ handler.pc = "returned"
    /\ http["r1"] = [pc |-> "done", status |-> 500, replies |-> 1]
    /\ http["r2"].pc = "send"
    /\ hup = 1
    /\ Reloading = {}

\* The ensure steps of Reconcile, in their order in the source.
StepOrder ==
    <<"ensureRuleEvaluatorConfig", "ensureRuleEvaluatorSecrets", "ensureRuleEvaluatorDeployment">>

\* C35: the steps a Reconcile call ran are the first ones of config, secrets,
\* deployment in that order; a step that failed is the last one run and the
\* call returned an error; the call went on as long as the steps returned nil
\* and returned nil only after all three did; with the OperatorConfig not
\* found the steps are run, config and deployment on the empty spec; with
\* any other fetch error no step is run and an error is returned.
C35_ReconcileOrder ==
    reconcile.called =>
        LET s == reconcile.steps
        IN /\ Len(s) <= Len(StepOrder)
           /\ \A i \in DOMAIN s : s[i].name = StepOrder[i]
           /\ \A i \in DOMAIN s : ~s[i].ok => i = Len(s) /\ reconcile.err # ""
           /\ reconcile.err = "" <=> (Len(s) = Len(StepOrder) /\ \A i \in DOMAIN s : s[i].ok)
           /\ reconcile.fetched = "error" => s = <<>> /\ reconcile.err # ""
           /\ reconcile.fetched # "error" =>
                 /\ Len(s) >= 1
                 /\ Len(s) < Len(StepOrder) => ~s[Len(s)].ok
           /\ reconcile.fetched = "notfound" =>
                 \A i \in DOMAIN s :
                     s[i].arg = IF StepOrder[i] = "ensureRuleEvaluatorSecrets"
                                THEN {} ELSE EmptyRules

\* With no OperatorConfig in the cluster Reconcile ensured the config for the
\* empty spec, failed to ensure the secrets and returned that error without
\* touching the deployment.
C35_Witness ==
    /\ reconcile.called
    /\ reconcile.fetched = "notfound"
    /\ Len(reconcile.steps) = 2
    /\ reconcile.steps[1] = Step("ensureRuleEvaluatorConfig", EmptyRules, TRUE)
    /\ ~reconcile.steps[2].ok
    /\ reconcile.err = "ensure rule-evaluator secrets"
    /\ cluster.configMap = Object(EmptyRules)
    /\ cluster.deployment = NoObject

\* C36: after a successful defaultAndValidate on options whose
\* PublicNamespace was empty, PublicNamespace equals OperatorNamespace,
\* whatever OperatorNamespace was given.
C36_PublicFollowsOperator ==
    (opts.called /\ opts.err = "" /\ opts.given.PublicNamespace = "") =>
        opts.o.PublicNamespace = opts.o.OperatorNamespace

====
